---- MODULE Spec2Model ----
(***************************************************************************)
(* Conversation parameter state machine of the flight-search assistant:    *)
(* the parameter merge (ChatEngine.mergeParameters), the completeness      *)
(* evaluator (isSearchComplete, getMissingFields) and the request handlers *)
(* that persist their results.                                             *)
(***************************************************************************)
EXTENDS Integers, Sequences, FiniteSets, TLC

(***************************************************************************)
(* JavaScript values.  An optional string field holds a string or          *)
(* undefined; an optional number holds a number or undefined; an optional  *)
(* object is the object or undefined.  Each kind has its own encoding of   *)
(* undefined so that values of one field stay comparable.                  *)
(***************************************************************************)
Undefined == "undefined"

UndefinedNum == 0 - 1

UndefinedRecord == [undefined |-> TRUE]

UndefinedList == [defined |-> FALSE, items |-> << >>]

List(items) == [defined |-> TRUE, items |-> items]

\* Truthiness of a string-valued field: undefined and "" are falsy.
TruthyStr(s) == s # Undefined /\ s # ""

\* Truthiness of a number-valued field: undefined and 0 are falsy.
TruthyNum(n) == n # UndefinedNum /\ n # 0

\* a || b on string-valued operands.
OrStr(a, b) == IF TruthyStr(a) THEN a ELSE b

\* a || b on number-valued operands.
OrNum(a, b) == IF TruthyNum(a) THEN a ELSE b

\* current?.field for a string-valued field.
OptStr(obj, field) == IF obj = UndefinedRecord THEN Undefined ELSE obj[field]

\* current?.field for a number-valued field.
OptNum(obj, field) == IF obj = UndefinedRecord THEN UndefinedNum ELSE obj[field]

\* params.multi_city_segments: undefined when the object has no such key.
SegmentsOf(params) ==
  IF "multi_city_segments" \in DOMAIN params
  THEN params.multi_city_segments
  ELSE UndefinedList

(***************************************************************************)
(* Bounds of the model.                                                    *)
(***************************************************************************)
\* Largest number of fields one extraction of the pure-merge inputs supplies.
MaxSupplied == 3

\* Largest number of fields one extraction of a merge sequence supplies.
MaxPerTurn == 1

\* Longest multi-city segment list.
MaxSegments == 2

\* Number of conversations that can be created.
MaxConversations == 1

\* Longest list of segments handed to the segment validators.
MaxItinerary == 3

\* The clock of the validations advances this many times.
MaxTicks == 3

(***************************************************************************)
(* Field names of the merge, in the order of the returned object.          *)
(***************************************************************************)
StringFields ==
  {"origin_code", "origin_name", "destination_code", "destination_name",
   "departure_date", "return_date", "trip_type", "cabin_class"}

NumberFields == {"adults", "children", "infants"}

TripTypes == {"return", "oneway", "multicity"}

(***************************************************************************)
(* ChatEngine.mergeParameters(extracted, current)                          *)
(***************************************************************************)
\* Faulty variant: the operands of destination_code swapped (the stored value wins).
mergeParameters_StoredWins(extracted, current) ==
  [origin_code      |-> OrStr(extracted.origin_code, OptStr(current, "origin_code")),
   origin_name      |-> OrStr(extracted.origin_name, OptStr(current, "origin_name")),
   destination_code |-> OrStr(OptStr(current, "destination_code"), extracted.destination_code),
   destination_name |-> OrStr(extracted.destination_name, OptStr(current, "destination_name")),
   departure_date   |-> OrStr(extracted.departure_date, OptStr(current, "departure_date")),
   return_date      |-> OrStr(extracted.return_date, OptStr(current, "return_date")),
   trip_type        |-> OrStr(extracted.trip_type, OptStr(current, "trip_type")),
   adults           |-> OrNum(OrNum(extracted.adults, OptNum(current, "adults")), 1),
   children         |-> OrNum(OrNum(extracted.children, OptNum(current, "children")), 0),
   infants          |-> OrNum(OrNum(extracted.infants, OptNum(current, "infants")), 0),
   cabin_class      |-> OrStr(extracted.cabin_class, OptStr(current, "cabin_class")),
   is_complete      |-> FALSE]

\* Faulty variant: children merged with ?? in place of || (an extracted 0 is kept).
mergeParameters_Nullish(extracted, current) ==
  [origin_code      |-> OrStr(extracted.origin_code, OptStr(current, "origin_code")),
   origin_name      |-> OrStr(extracted.origin_name, OptStr(current, "origin_name")),
   destination_code |-> OrStr(extracted.destination_code, OptStr(current, "destination_code")),
   destination_name |-> OrStr(extracted.destination_name, OptStr(current, "destination_name")),
   departure_date   |-> OrStr(extracted.departure_date, OptStr(current, "departure_date")),
   return_date      |-> OrStr(extracted.return_date, OptStr(current, "return_date")),
   trip_type        |-> OrStr(extracted.trip_type, OptStr(current, "trip_type")),
   adults           |-> OrNum(OrNum(extracted.adults, OptNum(current, "adults")), 1),
   children         |-> IF extracted.children # UndefinedNum
                       THEN extracted.children
                       ELSE OrNum(OptNum(current, "children"), 0),
   infants          |-> OrNum(OrNum(extracted.infants, OptNum(current, "infants")), 0),
   cabin_class      |-> OrStr(extracted.cabin_class, OptStr(current, "cabin_class")),
   is_complete      |-> FALSE]

\* Faulty variant: cabin_class taken from the extraction alone.
mergeParameters_DropsCabin(extracted, current) ==
  [origin_code      |-> OrStr(extracted.origin_code, OptStr(current, "origin_code")),
   origin_name      |-> OrStr(extracted.origin_name, OptStr(current, "origin_name")),
   destination_code |-> OrStr(extracted.destination_code, OptStr(current, "destination_code")),
   destination_name |-> OrStr(extracted.destination_name, OptStr(current, "destination_name")),
   departure_date   |-> OrStr(extracted.departure_date, OptStr(current, "departure_date")),
   return_date      |-> OrStr(extracted.return_date, OptStr(current, "return_date")),
   trip_type        |-> OrStr(extracted.trip_type, OptStr(current, "trip_type")),
   adults           |-> OrNum(OrNum(extracted.adults, OptNum(current, "adults")), 1),
   children         |-> OrNum(OrNum(extracted.children, OptNum(current, "children")), 0),
   infants          |-> OrNum(OrNum(extracted.infants, OptNum(current, "infants")), 0),
   cabin_class      |-> extracted.cabin_class,
   is_complete      |-> FALSE]

\* Faulty variant: is_complete carried over from the current record.
mergeParameters_KeepsFlag(extracted, current) ==
  [origin_code      |-> OrStr(extracted.origin_code, OptStr(current, "origin_code")),
   origin_name      |-> OrStr(extracted.origin_name, OptStr(current, "origin_name")),
   destination_code |-> OrStr(extracted.destination_code, OptStr(current, "destination_code")),
   destination_name |-> OrStr(extracted.destination_name, OptStr(current, "destination_name")),
   departure_date   |-> OrStr(extracted.departure_date, OptStr(current, "departure_date")),
   return_date      |-> OrStr(extracted.return_date, OptStr(current, "return_date")),
   trip_type        |-> OrStr(extracted.trip_type, OptStr(current, "trip_type")),
   adults           |-> OrNum(OrNum(extracted.adults, OptNum(current, "adults")), 1),
   children         |-> OrNum(OrNum(extracted.children, OptNum(current, "children")), 0),
   infants          |-> OrNum(OrNum(extracted.infants, OptNum(current, "infants")), 0),
   cabin_class      |-> OrStr(extracted.cabin_class, OptStr(current, "cabin_class")),
   is_complete      |-> (current # UndefinedRecord /\ current.is_complete)]

mergeParameters(extracted, current) ==
  [origin_code      |-> OrStr(extracted.origin_code, OptStr(current, "origin_code")),
   origin_name      |-> OrStr(extracted.origin_name, OptStr(current, "origin_name")),
   destination_code |-> OrStr(extracted.destination_code, OptStr(current, "destination_code")),
   destination_name |-> OrStr(extracted.destination_name, OptStr(current, "destination_name")),
   departure_date   |-> OrStr(extracted.departure_date, OptStr(current, "departure_date")),
   return_date      |-> OrStr(extracted.return_date, OptStr(current, "return_date")),
   trip_type        |-> OrStr(extracted.trip_type, OptStr(current, "trip_type")),
   adults           |-> OrNum(OrNum(extracted.adults, OptNum(current, "adults")), 1),
   children         |-> OrNum(OrNum(extracted.children, OptNum(current, "children")), 0),
   infants          |-> OrNum(OrNum(extracted.infants, OptNum(current, "infants")), 0),
   cabin_class      |-> OrStr(extracted.cabin_class, OptStr(current, "cabin_class")),
   is_complete      |-> FALSE]

(***************************************************************************)
(* isSearchComplete(params)                                                *)
(***************************************************************************)
\* Faulty variant: the return-date requirement left out of the conjunction.
isSearchComplete_NoReturn(params) ==
  /\ TruthyStr(params.origin_code)
  /\ TruthyStr(params.destination_code)
  /\ TruthyStr(params.departure_date)
  /\ \/ params.trip_type # "multicity"
     \/ (SegmentsOf(params).defined /\ Len(SegmentsOf(params).items) >= 2)

\* Faulty variant: one segment is enough for a multicity record.
isSearchComplete_OneSegment(params) ==
  /\ TruthyStr(params.origin_code)
  /\ TruthyStr(params.destination_code)
  /\ TruthyStr(params.departure_date)
  /\ (params.trip_type # "return" \/ TruthyStr(params.return_date))
  /\ \/ params.trip_type # "multicity"
     \/ (SegmentsOf(params).defined /\ Len(SegmentsOf(params).items) >= 1)

isSearchComplete(params) ==
  LET hasOrigin == TruthyStr(params.origin_code)
      hasDestination == TruthyStr(params.destination_code)
      hasDepartureDate == TruthyStr(params.departure_date)
      hasReturnDate == params.trip_type # "return" \/ TruthyStr(params.return_date)
      hasValidSegments ==
        params.trip_type # "multicity"
        \/ (SegmentsOf(params).defined /\ Len(SegmentsOf(params).items) >= 2)
  IN hasOrigin /\ hasDestination /\ hasDepartureDate /\ hasReturnDate /\ hasValidSegments

(***************************************************************************)
(* calculateCompletionPercentage(params)                                   *)
(***************************************************************************)
\* Math.round(numerator / denominator) of two naturals: the nearest
\* integer, a half rounded up.
MathRound(numerator, denominator) ==
  (2 * numerator + denominator) \div (2 * denominator)

\* Faulty variant: the quotient is cut off instead of rounded.
calculateCompletionPercentage_Truncates(params) ==
  LET Count(held) == IF held THEN 1 ELSE 0
      completed ==
        Count(TruthyStr(params.origin_code))
          + Count(TruthyStr(params.destination_code))
          + Count(TruthyStr(params.departure_date))
          + Count(params.trip_type = "return" /\ TruthyStr(params.return_date))
          + Count(/\ params.trip_type = "multicity"
                  /\ SegmentsOf(params).defined
                  /\ Len(SegmentsOf(params).items) >= 2)
      total ==
        3 + Count(params.trip_type = "return")
          + Count(params.trip_type = "multicity")
  IN (completed * 100) \div total

calculateCompletionPercentage(params) ==
  LET Count(held) == IF held THEN 1 ELSE 0
      completed ==
        Count(TruthyStr(params.origin_code))
          + Count(TruthyStr(params.destination_code))
          + Count(TruthyStr(params.departure_date))
          + Count(params.trip_type = "return" /\ TruthyStr(params.return_date))
          + Count(/\ params.trip_type = "multicity"
                  /\ SegmentsOf(params).defined
                  /\ Len(SegmentsOf(params).items) >= 2)
      total ==
        3 + Count(params.trip_type = "return")
          + Count(params.trip_type = "multicity")
  IN MathRound(completed * 100, total)

(***************************************************************************)
(* getMissingFields(params): the pushes in program order.                  *)
(***************************************************************************)
\* Faulty variant: the return_date push left out.
getMissingFields_NoReturn(params) ==
  (IF ~TruthyStr(params.origin_code) THEN <<"origin_code">> ELSE << >>)
  \o (IF ~TruthyStr(params.destination_code) THEN <<"destination_code">> ELSE << >>)
  \o (IF ~TruthyStr(params.departure_date) THEN <<"departure_date">> ELSE << >>)
  \o (IF params.trip_type = "multicity"
         /\ (~SegmentsOf(params).defined \/ Len(SegmentsOf(params).items) < 2)
      THEN <<"multi_city_segments">> ELSE << >>)

\* Faulty variant: departure_date pushed before destination_code.
getMissingFields_Reordered(params) ==
  (IF ~TruthyStr(params.origin_code) THEN <<"origin_code">> ELSE << >>)
  \o (IF ~TruthyStr(params.departure_date) THEN <<"departure_date">> ELSE << >>)
  \o (IF ~TruthyStr(params.destination_code) THEN <<"destination_code">> ELSE << >>)
  \o (IF params.trip_type = "return" /\ ~TruthyStr(params.return_date)
      THEN <<"return_date">> ELSE << >>)
  \o (IF params.trip_type = "multicity"
         /\ (~SegmentsOf(params).defined \/ Len(SegmentsOf(params).items) < 2)
      THEN <<"multi_city_segments">> ELSE << >>)

getMissingFields(params) ==
  (IF ~TruthyStr(params.origin_code) THEN <<"origin_code">> ELSE << >>)
  \o (IF ~TruthyStr(params.destination_code) THEN <<"destination_code">> ELSE << >>)
  \o (IF ~TruthyStr(params.departure_date) THEN <<"departure_date">> ELSE << >>)
  \o (IF params.trip_type = "return" /\ ~TruthyStr(params.return_date)
      THEN <<"return_date">> ELSE << >>)
  \o (IF params.trip_type = "multicity"
         /\ (~SegmentsOf(params).defined \/ Len(SegmentsOf(params).items) < 2)
      THEN <<"multi_city_segments">> ELSE << >>)

(***************************************************************************)
(* Multi-city segment validators.  Each one sorts a copy of the list by    *)
(* sequence_order and throws at the first position that fails; the         *)
(* outcome records whether it returned and what the thrown message names.  *)
(***************************************************************************)
\* new Date(date).getTime() of a YYYY-MM-DD string, in days since the epoch
\* (the string is parsed as midnight UTC).
DateValue(date) ==
  CASE date = "2025-05-15" -> 20223
    [] date = "2025-05-16" -> 20224
    [] date = "2025-06-01" -> 20240
    [] date = "2025-06-10" -> 20249
    [] date = "2025-06-20" -> 20259
    [] date = "2025-07-01" -> 20270
    [] date = "2025-07-15" -> 20284

\* One step of the stable sort: segment s placed after every element of the
\* sorted list whose sequence_order is not greater than its own.
RECURSIVE InsertByOrder(_, _)
InsertByOrder(s, sorted) ==
  IF sorted = << >> THEN <<s>>
  ELSE IF s.sequence_order < Head(sorted).sequence_order
  THEN <<s>> \o sorted
  ELSE <<Head(sorted)>> \o InsertByOrder(s, Tail(sorted))

\* [...segments].sort((a, b) => a.sequence_order - b.sequence_order)
RECURSIVE sortSegmentsByOrder(_)
sortSegmentsByOrder(segs) ==
  IF segs = << >> THEN << >>
  ELSE InsertByOrder(segs[Len(segs)],
                     sortSegmentsByOrder(SubSeq(segs, 1, Len(segs) - 1)))

\* The outcome of a validator that returned.
Returned == [ok |-> TRUE, position |-> 0, got |-> 0]

\* The outcome of a validator that threw, naming a position of the sorted
\* list (counted from 1) and, for the sequence check, the order found there.
Threw(position, got) == [ok |-> FALSE, position |-> position, got |-> got]

\* Faulty variant: checks the list as given, without sorting it.
validateSegmentSequence_Unsorted(segs) ==
  LET sorted == segs
      bad == {i \in 1..Len(sorted) : sorted[i].sequence_order # i}
  IN IF bad = {} THEN Returned
     ELSE LET i == CHOOSE k \in bad : \A j \in bad : k <= j
          IN Threw(i, sorted[i].sequence_order)

\* validateSegmentSequence(segments)
validateSegmentSequence(segs) ==
  LET sorted == sortSegmentsByOrder(segs)
      bad == {i \in 1..Len(sorted) : sorted[i].sequence_order # i}
  IN IF bad = {} THEN Returned
     ELSE LET i == CHOOSE k \in bad : \A j \in bad : k <= j
          IN Threw(i, sorted[i].sequence_order)

\* Faulty variant: throws only when a date is earlier than the previous one.
validateSegmentDates_AllowsEqual(segs) ==
  LET sorted == sortSegmentsByOrder(segs)
      bad == {i \in 2..Len(sorted) :
                DateValue(sorted[i].departure_date)
                  < DateValue(sorted[i - 1].departure_date)}
  IN IF bad = {} THEN Returned
     ELSE Threw(CHOOSE k \in bad : \A j \in bad : k <= j, 0)

\* validateSegmentDates(segments)
validateSegmentDates(segs) ==
  LET sorted == sortSegmentsByOrder(segs)
      bad == {i \in 2..Len(sorted) :
                DateValue(sorted[i].departure_date)
                  <= DateValue(sorted[i - 1].departure_date)}
  IN IF bad = {} THEN Returned
     ELSE Threw(CHOOSE k \in bad : \A j \in bad : k <= j, 0)

\* Faulty variant: compares the segments in the order given.
validateSegmentConnections_Unsorted(segs) ==
  LET sorted == segs
      bad == {i \in 2..Len(sorted) :
                sorted[i - 1].destination_code # sorted[i].origin_code}
  IN IF bad = {} THEN Returned
     ELSE Threw(CHOOSE k \in bad : \A j \in bad : k <= j, 0)

\* validateSegmentConnections(segments)
validateSegmentConnections(segs) ==
  LET sorted == sortSegmentsByOrder(segs)
      bad == {i \in 2..Len(sorted) :
                sorted[i - 1].destination_code # sorted[i].origin_code}
  IN IF bad = {} THEN Returned
     ELSE Threw(CHOOSE k \in bad : \A j \in bad : k <= j, 0)

\* validateMultiCitySegments(data), for data that parses as an array of
\* segments: the sequence check, then the date check; an error of either
\* propagates.
validateMultiCitySegments(segs) ==
  IF ~validateSegmentSequence(segs).ok THEN validateSegmentSequence(segs)
  ELSE IF ~validateSegmentDates(segs).ok THEN validateSegmentDates(segs)
  ELSE Returned

(***************************************************************************)
(* ChatEngine.generateResponse, after the model call: the clarification    *)
(* and the next step are computed from the tool call's arguments           *)
(* (extractedParams, undefined when the model made no tool call) and the   *)
(* stored parameters.                                                      *)
(***************************************************************************)
\* The disambiguation question for a destination name, by the city it
\* contains; undefined for any other name.
AmbiguousDestination(destination_name) ==
  CASE destination_name \in {"London"} -> "LON"
    [] destination_name \in {"New York", "NYC"} -> "NYC"
    [] destination_name \in {"Tokyo"} -> "TYO"
    [] destination_name \in {"Paris"} -> "PAR"
    [] destination_name \in {"Chicago"} -> "CHI"
    [] OTHER -> Undefined

\* ChatEngine.generateClarificationPrompt(params)
generateClarificationPrompt(extractedParams) ==
  IF extractedParams = UndefinedRecord THEN Undefined
  ELSE IF TruthyStr(extractedParams.destination_name)
  THEN AmbiguousDestination(extractedParams.destination_name)
  ELSE Undefined

\* ChatEngine.determineNextStep(extractedParams, currentParams)
determineNextStep(extractedParams, currentParams) ==
  IF extractedParams = UndefinedRecord THEN "collecting"
  ELSE
    LET hasOrigin ==
          TruthyStr(OrStr(extractedParams.origin_code, OptStr(currentParams, "origin_code")))
        hasDestination ==
          TruthyStr(OrStr(extractedParams.destination_code,
                          OptStr(currentParams, "destination_code")))
        hasDeparture ==
          TruthyStr(OrStr(extractedParams.departure_date,
                          OptStr(currentParams, "departure_date")))
        tripType ==
          OrStr(OrStr(extractedParams.trip_type, OptStr(currentParams, "trip_type")),
                "return")
        hasReturn ==
          \/ tripType # "return"
          \/ TruthyStr(extractedParams.return_date)
          \/ TruthyStr(OptStr(currentParams, "return_date"))
        hasMultiCity ==
          \/ tripType # "multicity"
          \/ /\ extractedParams.multi_city_segments.defined
             /\ Len(extractedParams.multi_city_segments.items) >= 2
    IN IF hasOrigin /\ hasDestination /\ hasDeparture /\ hasReturn /\ hasMultiCity
       THEN "confirming"
       ELSE "collecting"

\* The AIResponse generateResponse returns for a model reply `text` whose
\* tool call carried extractedParams.
generateResponse(text, extractedParams, currentParams) ==
  LET needOrigin ==
        ~(\/ TruthyStr(OptStr(extractedParams, "origin_code"))
          \/ TruthyStr(OptStr(currentParams, "origin_code")))
      needDestination ==
        ~(\/ TruthyStr(OptStr(extractedParams, "destination_code"))
          \/ TruthyStr(OptStr(currentParams, "destination_code")))
      needDeparture ==
        ~(\/ TruthyStr(OptStr(extractedParams, "departure_date"))
          \/ TruthyStr(OptStr(currentParams, "departure_date")))
      requiresClarification == needOrigin \/ needDestination \/ needDeparture
      asks ==
        (IF needOrigin THEN <<"departure airport">> ELSE << >>)
        \o (IF needDestination THEN <<"arrival airport">> ELSE << >>)
        \o (IF needDeparture THEN <<"departure date">> ELSE << >>)
  IN [content |-> text,
      extracted_params |-> extractedParams,
      requires_clarification |-> requiresClarification,
      clarification_prompt |->
        IF requiresClarification
        THEN [asks |-> asks, question |-> Undefined]
        ELSE [asks |-> << >>, question |-> generateClarificationPrompt(extractedParams)],
      next_step |->
        IF requiresClarification THEN "collecting"
        ELSE determineNextStep(extractedParams, currentParams)]

\* ChatEngine.generateInitialMessage(initialQuery)
generateInitialMessage(initialQuery) ==
  IF TruthyStr(initialQuery) THEN "greeting quoting the query" ELSE "greeting"

(***************************************************************************)
(* State.                                                                  *)
(*   extracted, current, merged : one call mergeParameters(extracted,      *)
(*                                current) and the object it returned      *)
(*   turnResponse               : what generateResponse returned for the   *)
(*                                same extraction and current parameters   *)
(*   record, applied            : a parameter record that a sequence of    *)
(*                                merges is applied to, and whether the    *)
(*                                latest merge carried an explicit "" or 0 *)
(*                                for a field the record held a value in   *)
(*   params, evaluated,         : one SearchParameters value, whether the  *)
(*   complete, missing            evaluator ran on it, and what            *)
(*                                isSearchComplete and getMissingFields    *)
(*                                returned                                 *)
(*   percentage                 : what calculateCompletionPercentage       *)
(*                                returned for params                      *)
(*   candidate, now, verdict,   : a value handed to a schema, the instant  *)
(*   agedOut                      of the validation, what the schemas      *)
(*                                answered, and whether a date accepted at *)
(*                                an earlier instant was rejected since    *)
(*   replacing, readResult      : the segment replacement of a PUT in      *)
(*                                flight (with the record and the segments *)
(*                                stored before it began), and what the    *)
(*                                latest read of the stored segments       *)
(*                                returned                                 *)
(*   streamCall                 : the messages POST /api/chat/stream       *)
(*                                handed to the model                      *)
(*   corsRequest, corsResponse  : a request that reached the CORS          *)
(*                                middleware and what the middleware       *)
(*                                answered                                 *)
(*   cycles, overlapped         : the read-merge-write cycles on one       *)
(*                                record (position, extraction, row read), *)
(*                                and whether one read while another was   *)
(*                                between its read and its write           *)
(*   segments, validation       : one list of multi-city segments and what *)
(*                                each segment validator answered for it   *)
(*                                (undefined before they ran)              *)
(*   conversations,             : the database tables, by conversation id  *)
(*   searchParameters, messages   (a missing row is undefined)             *)
(*   multiCitySegments          : the stored segments of each parameter    *)
(*                                row, in sequence_order                   *)
(*   response                   : what the latest request was answered     *)
(*   urlCall                    : the parameters the latest request handed *)
(*                                to generateBookingURL (undefined if it   *)
(*                                made no such call)                       *)
(***************************************************************************)
VARIABLES extracted, current, merged, turnResponse, record, applied,
          params, evaluated, complete, missing, percentage, segments,
          validation, candidate, now, verdict, agedOut, replacing, readResult,
          cycles, overlapped, streamCall, corsRequest, corsResponse, conversations, searchParameters,
          multiCitySegments, messages, response, urlCall

vars ==
  <<extracted, current, merged, turnResponse, record, applied, params, evaluated,
    complete, missing, percentage, segments, validation, candidate, now,
    verdict, agedOut, replacing, readResult, cycles, overlapped,
    streamCall, corsRequest, corsResponse, conversations,
    searchParameters, multiCitySegments, messages, response, urlCall>>

dbVars == <<conversations, searchParameters, multiCitySegments, messages>>

serverVars ==
  <<conversations, searchParameters, multiCitySegments, messages, response,
    urlCall>>

mergeVars == <<extracted, current, merged, turnResponse>>

seqVars == <<record, applied>>

evalVars == <<params, evaluated, complete, missing, percentage>>

segVars == <<segments, validation>>

valVars == <<candidate, now, verdict, agedOut>>

replaceVars == <<replacing, readResult>>

cycleVars == <<cycles, overlapped>>

chatVars == <<streamCall>>

corsVars == <<corsRequest, corsResponse>>

(***************************************************************************)
(* Inputs of the pure functions.                                           *)
(***************************************************************************)
\* The FlightInfo objects the extraction tool call can carry: every field
\* optional, strings possibly empty, counts possibly 0.
AllExtractions ==
  [origin_code      : {Undefined, "", "MEL"},
   origin_name      : {Undefined, "Melbourne"},
   destination_code : {Undefined, "", "NRT"},
   destination_name : {Undefined, "Tokyo"},
   departure_date   : {Undefined, "", "2025-06-01"},
   return_date      : {Undefined, "", "2025-06-20"},
   trip_type        : {Undefined} \cup TripTypes,
   adults           : {UndefinedNum, 0, 3},
   children         : {UndefinedNum, 0, 2},
   infants          : {UndefinedNum, 0, 2},
   cabin_class      : {Undefined, "C"},
   multi_city_segments : {UndefinedList}]

\* Number of FlightInfo fields an extraction supplies (holds a value for).
NumSupplied(e) ==
  Cardinality({f \in StringFields : e[f] # Undefined})
  + Cardinality({f \in NumberFields : e[f] # UndefinedNum})

Extractions == {e \in AllExtractions : NumSupplied(e) <= MaxSupplied}

EmptyExtraction ==
  [origin_code |-> Undefined, origin_name |-> Undefined,
   destination_code |-> Undefined, destination_name |-> Undefined,
   departure_date |-> Undefined, return_date |-> Undefined,
   trip_type |-> Undefined, adults |-> UndefinedNum, children |-> UndefinedNum,
   infants |-> UndefinedNum, cabin_class |-> Undefined,
   multi_city_segments |-> UndefinedList]

\* The completeness the parameters PUT computes from a stored row, without
\* the segment test (a row holds no segments).
RowComplete(row) ==
  /\ TruthyStr(row.origin_code)
  /\ TruthyStr(row.destination_code)
  /\ TruthyStr(row.departure_date)
  /\ (row.trip_type # "return" \/ TruthyStr(row.return_date))

\* Stored SearchParameters rows: codes and dates unset or valid, trip_type
\* always set, adults >= 1, is_complete true only on a row the PUT found
\* complete.
StoredRecords ==
  {r \in
     [origin_code      : {Undefined, "SYD"},
      origin_name      : {Undefined, "Sydney"},
      destination_code : {Undefined, "LAX"},
      destination_name : {Undefined, "Los Angeles"},
      departure_date   : {Undefined, "2025-07-01"},
      return_date      : {Undefined, "2025-07-15"},
      trip_type        : TripTypes,
      adults           : {1, 2},
      children         : {0, 1},
      infants          : {0, 1},
      cabin_class      : {Undefined, "Y"},
      is_complete      : BOOLEAN] :
     /\ (r.is_complete => RowComplete(r))
     \* the secondary fields are all as created or all filled in
     /\ \/ /\ r.origin_name = Undefined /\ r.destination_name = Undefined
           /\ r.adults = 1 /\ r.children = 0 /\ r.infants = 0
           /\ r.cabin_class = Undefined
        \/ /\ r.origin_name # Undefined /\ r.destination_name # Undefined
           /\ r.adults = 2 /\ r.children = 1 /\ r.infants = 1
           /\ r.cabin_class # Undefined}

CurrentInputs == {UndefinedRecord} \cup StoredRecords

\* The row POST /api/conversations creates for a new conversation.
CreatedRecord ==
  [origin_code |-> Undefined, origin_name |-> Undefined,
   destination_code |-> Undefined, destination_name |-> Undefined,
   departure_date |-> Undefined, return_date |-> Undefined,
   trip_type |-> "return", adults |-> 1, children |-> 0, infants |-> 0,
   cabin_class |-> Undefined, is_complete |-> FALSE]

(***************************************************************************)
(* SpecMerge: one call of mergeParameters on every input pair.             *)
(***************************************************************************)
IdleMerge ==
  /\ extracted = EmptyExtraction
  /\ current = UndefinedRecord
  /\ merged = UndefinedRecord
  /\ turnResponse = UndefinedRecord

IdleSeq ==
  /\ record = UndefinedRecord
  /\ applied = FALSE

IdleServer ==
  /\ conversations = [id \in {} |-> UndefinedRecord]
  /\ searchParameters = [id \in {} |-> UndefinedRecord]
  /\ multiCitySegments = [id \in {} |-> << >>]
  /\ messages = [id \in {} |-> << >>]
  /\ response = UndefinedRecord
  /\ urlCall = UndefinedRecord

IdleEval ==
  /\ params = UndefinedRecord
  /\ evaluated = FALSE
  /\ complete = FALSE
  /\ missing = << >>
  /\ percentage = UndefinedNum

IdleSeg ==
  /\ segments = << >>
  /\ validation = UndefinedRecord

\* The hour, counted from the epoch, at which the requests of the other
\* specifications are validated: midnight UTC of 2025-05-01.
RequestInstant == (DateValue("2025-06-01") - 31) * 24

IdleVal ==
  /\ candidate = UndefinedRecord
  /\ now = RequestInstant
  /\ verdict = UndefinedRecord
  /\ agedOut = FALSE

IdleReplace ==
  /\ replacing = UndefinedRecord
  /\ readResult = UndefinedList

IdleCycles ==
  /\ cycles = [c \in {} |-> UndefinedRecord]
  /\ overlapped = FALSE

IdleChat == streamCall = UndefinedRecord

IdleCors ==
  /\ corsRequest = UndefinedRecord
  /\ corsResponse = UndefinedRecord

InitMerge ==
  /\ extracted \in Extractions
  /\ current \in CurrentInputs
  /\ merged = UndefinedRecord
  /\ turnResponse = UndefinedRecord
  /\ IdleSeq
  /\ IdleEval
  /\ IdleSeg
  /\ IdleVal
  /\ IdleReplace
  /\ IdleCycles
  /\ IdleChat
  /\ IdleCors
  /\ IdleServer

CallMerge ==
  /\ merged = UndefinedRecord
  /\ merged' = mergeParameters(extracted, current)
  /\ UNCHANGED <<extracted, current, turnResponse, seqVars, evalVars, segVars, valVars, replaceVars, cycleVars, chatVars, corsVars,
               serverVars>>

NextMerge == CallMerge

SpecMerge == InitMerge /\ [][NextMerge]_vars

(***************************************************************************)
(* SpecSeq: a sequence of merges applied to one parameter record.  Each    *)
(* merge takes the record the previous one returned as its current.        *)
(***************************************************************************)
TurnExtractions == {e \in AllExtractions : NumSupplied(e) <= MaxPerTurn}

\* The extraction names a field with an explicit "" or 0 while the record
\* holds a value in it.
CarriesEmptyFor(e, r) ==
  /\ r # UndefinedRecord
  /\ \/ \E f \in StringFields : e[f] = "" /\ TruthyStr(r[f])
     \/ \E f \in NumberFields : e[f] = 0 /\ TruthyNum(r[f])

InitSeq ==
  /\ record \in {UndefinedRecord, CreatedRecord}
  /\ applied = FALSE
  /\ IdleMerge
  /\ IdleEval
  /\ IdleSeg
  /\ IdleVal
  /\ IdleReplace
  /\ IdleCycles
  /\ IdleChat
  /\ IdleCors
  /\ IdleServer

ApplyMerge(e) ==
  /\ record' = mergeParameters(e, record)
  /\ applied' = CarriesEmptyFor(e, record)
  /\ UNCHANGED <<mergeVars, evalVars, segVars, valVars, replaceVars, cycleVars, chatVars, corsVars, serverVars>>

NextSeq == \E e \in TurnExtractions : ApplyMerge(e)

SpecSeq == InitSeq /\ [][NextSeq]_vars

(***************************************************************************)
(* SpecEval: the completeness evaluator on one SearchParameters value.     *)
(***************************************************************************)
\* Segments a client or the model can name.
SegmentPool ==
  {[sequence_order |-> 1, origin_code |-> "SYD", origin_name |-> "Sydney",
    destination_code |-> "NRT", destination_name |-> "Tokyo",
    departure_date |-> "2025-06-01"],
   [sequence_order |-> 2, origin_code |-> "NRT", origin_name |-> "Tokyo",
    destination_code |-> "LAX", destination_name |-> "Los Angeles",
    departure_date |-> "2025-06-20"],
   [sequence_order |-> 2, origin_code |-> "HND", origin_name |-> "Tokyo",
    destination_code |-> "LAX", destination_name |-> "Los Angeles",
    departure_date |-> "2025-06-01"]}

SegmentLists == UNION {[1..n -> SegmentPool] : n \in 0..MaxSegments}

OptionalSegmentLists == {UndefinedList} \cup {List(s) : s \in SegmentLists}

\* SearchParameters values handed to the evaluator.
ParamRecords ==
  [origin_code      : {Undefined, "", "SYD"},
   destination_code : {Undefined, "", "NRT"},
   departure_date   : {Undefined, "", "2025-06-01"},
   return_date      : {Undefined, "", "2025-06-20"},
   trip_type        : TripTypes,
   multi_city_segments : OptionalSegmentLists]

InitEval ==
  /\ params \in ParamRecords
  /\ evaluated = FALSE
  /\ complete = FALSE
  /\ missing = << >>
  /\ percentage = UndefinedNum
  /\ IdleMerge
  /\ IdleSeq
  /\ IdleSeg
  /\ IdleVal
  /\ IdleReplace
  /\ IdleCycles
  /\ IdleChat
  /\ IdleCors
  /\ IdleServer

Evaluate ==
  /\ ~evaluated
  /\ evaluated' = TRUE
  /\ complete' = isSearchComplete(params)
  /\ missing' = getMissingFields(params)
  /\ percentage' = calculateCompletionPercentage(params)
  /\ UNCHANGED <<params, mergeVars, seqVars, segVars, valVars, replaceVars, cycleVars, chatVars, corsVars, serverVars>>

NextEval == Evaluate

SpecEval == InitEval /\ [][NextEval]_vars

(***************************************************************************)
(* SpecSeg: the segment validators on one list of segments, in any order.  *)
(***************************************************************************)
\* Segments that satisfy MultiCitySegmentSchema: a positive order, two
\* different airports, a date.  Every leg of SYD -> NRT -> HND -> LAX on
\* every date at the orders 1 to 3, and the last leg once at the order 4.
ItinerarySegments ==
  {s \in [sequence_order   : 1..4,
          origin_code      : {"SYD", "NRT", "HND"},
          destination_code : {"NRT", "HND", "LAX"},
          departure_date   : {"2025-06-01", "2025-06-10", "2025-06-20"}] :
     /\ <<s.origin_code, s.destination_code>>
          \in {<<"SYD", "NRT">>, <<"NRT", "HND">>, <<"HND", "LAX">>}
     /\ (s.sequence_order = 4 =>
           s.origin_code = "HND" /\ s.departure_date = "2025-06-20")}

Itineraries == UNION {[1..n -> ItinerarySegments] : n \in 0..MaxItinerary}

InitSeg ==
  /\ segments \in Itineraries
  /\ validation = UndefinedRecord
  /\ IdleMerge
  /\ IdleSeq
  /\ IdleEval
  /\ IdleVal
  /\ IdleReplace
  /\ IdleCycles
  /\ IdleChat
  /\ IdleCors
  /\ IdleServer

Validate ==
  /\ validation = UndefinedRecord
  /\ validation' =
       [sequence    |-> validateSegmentSequence(segments),
        dates       |-> validateSegmentDates(segments),
        connections |-> validateSegmentConnections(segments),
        itinerary   |-> validateMultiCitySegments(segments)]
  /\ UNCHANGED <<segments, mergeVars, seqVars, evalVars, valVars, replaceVars,
               cycleVars, chatVars, corsVars, serverVars>>

NextSeg == Validate

SpecSeg == InitSeg /\ [][NextSeg]_vars

(***************************************************************************)
(* Spec: the request handlers over the database.                           *)
(***************************************************************************)
\* db.updateSearchParameters(conversationId, partial): the row with every
\* field the partial object defines written over.
updateSearchParameters(row, partial) ==
  [f \in DOMAIN row |->
     IF f \notin DOMAIN partial THEN row[f]
     ELSE IF f \in StringFields
       THEN (IF partial[f] # Undefined THEN partial[f] ELSE row[f])
     ELSE IF f \in NumberFields
       THEN (IF partial[f] # UndefinedNum THEN partial[f] ELSE row[f])
     ELSE partial[f]]

\* db.createConversation({ user_id })
createConversation(user_id) ==
  [user_id |-> user_id, status |-> "active", current_step |-> "collecting",
   generated_url |-> Undefined]

\* Two segments the model can extract for a multicity trip.
TwoSegments ==
  <<[sequence_order |-> 1, origin_code |-> "SYD", origin_name |-> "Sydney",
     destination_code |-> "NRT", destination_name |-> "Tokyo",
     departure_date |-> "2025-06-01"],
    [sequence_order |-> 2, origin_code |-> "NRT", origin_name |-> "Tokyo",
     destination_code |-> "LAX", destination_name |-> "Los Angeles",
     departure_date |-> "2025-06-20"]>>

\* The tool-call arguments the model can return in a turn: best effort, any
\* subset of the trip fields, never validated.  Every combination of the
\* fields completeness depends on, and a few objects naming a city or a
\* passenger count.
ModelOutputs ==
  {e \in
     [origin_code      : {Undefined, "SYD"},
      origin_name      : {Undefined},
      destination_code : {Undefined, "NRT"},
      destination_name : {Undefined},
      departure_date   : {Undefined, "2025-06-01"},
      return_date      : {Undefined, "2025-06-20"},
      trip_type        : {Undefined} \cup TripTypes,
      adults           : {UndefinedNum},
      children         : {UndefinedNum},
      infants          : {UndefinedNum},
      cabin_class      : {Undefined},
      multi_city_segments : {UndefinedList, List(TwoSegments)}] :
     e.multi_city_segments.defined => e.trip_type = "multicity"}
  \cup
  {[EmptyExtraction EXCEPT !.destination_name = "Tokyo"],
   [EmptyExtraction EXCEPT !.origin_code = "SYD", !.destination_name = "Tokyo",
                           !.departure_date = "2025-06-01", !.trip_type = "oneway"],
   [EmptyExtraction EXCEPT !.origin_code = "SYD", !.destination_code = "NRT",
                           !.destination_name = "Tokyo",
                           !.departure_date = "2025-06-01", !.trip_type = "oneway"],
   [EmptyExtraction EXCEPT !.infants = 2],
   [EmptyExtraction EXCEPT !.adults = 0, !.children = 0]}

\* The tool-call arguments the model returns for the initial query of a
\* conversation: nothing, part of a trip, a whole trip of each type, a city
\* name, a passenger count.
QueryOutputs ==
  {EmptyExtraction,
   [EmptyExtraction EXCEPT !.origin_code = "SYD", !.destination_code = "NRT",
                           !.departure_date = "2025-06-01"],
   [EmptyExtraction EXCEPT !.origin_code = "SYD", !.destination_code = "NRT",
                           !.departure_date = "2025-06-01", !.trip_type = "oneway"],
   [EmptyExtraction EXCEPT !.origin_code = "SYD", !.destination_code = "NRT",
                           !.departure_date = "2025-06-01",
                           !.trip_type = "multicity",
                           !.multi_city_segments = List(TwoSegments)],
   [EmptyExtraction EXCEPT !.destination_name = "Tokyo"],
   [EmptyExtraction EXCEPT !.infants = 2]}

\* What the model call of a turn ends in: an error thrown by
\* generateResponse, or a reply with or without a tool call.
AiOutcomes ==
  {[ok |-> FALSE, extractedParams |-> UndefinedRecord]}
  \cup {[ok |-> TRUE, extractedParams |-> e] : e \in QueryOutputs \cup {UndefinedRecord}}

\* Bodies and query strings of POST /api/conversations, and what the
\* database answers while the request is handled.
CreateRequests ==
  [valid : BOOLEAN,
   diag : {"none", "minimal"},
   user_id : {Undefined, "user-1"},
   initial_query : {Undefined, "", "Tokyo in June"},
   db : {"ok", "createSearchParameters rejects"}]

Init ==
  /\ IdleServer
  /\ IdleMerge
  /\ IdleSeq
  /\ IdleEval
  /\ IdleSeg
  /\ IdleVal
  /\ IdleReplace
  /\ IdleCycles
  /\ IdleChat
  /\ IdleCors

\* POST /api/conversations, the model call ending in one of aiOutcomes.
PostConversationsWith(req, aiOutcomes) ==
  LET id == Cardinality(DOMAIN conversations) + 1
      op == "POST /api/conversations"
      userId == OrStr(req.user_id, "anon")
      initialMessage == generateInitialMessage(req.initial_query)
      greeting == [role |-> "assistant", content |-> initialMessage]
      userMessage == [role |-> "user", content |-> req.initial_query]
      searchParams == CreatedRecord
  IN
  /\ id <= MaxConversations
  /\ IF ~req.valid
     THEN \* the body fails CreateConversationRequestSchema
       /\ response' = [op |-> op, status |-> 400, conversation_id |-> Undefined,
                       ai_response |-> UndefinedRecord]
       /\ urlCall' = UndefinedRecord
       /\ UNCHANGED dbVars
     ELSE IF req.diag = "minimal"
     THEN \* the diagnostic model call, no database access
       /\ \E ok \in BOOLEAN :
            response' = [op |-> op, status |-> IF ok THEN 200 ELSE 500,
                         conversation_id |-> Undefined,
                         ai_response |-> UndefinedRecord]
       /\ urlCall' = UndefinedRecord
       /\ UNCHANGED dbVars
     ELSE IF req.db = "createSearchParameters rejects"
     THEN \* the conversation row was inserted, the parameter row is not
       /\ conversations' = (id :> createConversation(userId)) @@ conversations
       /\ UNCHANGED <<searchParameters, multiCitySegments, messages>>
       /\ urlCall' = UndefinedRecord
       /\ response' = [op |-> op, status |-> 500, conversation_id |-> Undefined,
                       ai_response |-> UndefinedRecord]
     ELSE IF ~TruthyStr(req.initial_query)
     THEN
       /\ conversations' = (id :> createConversation(userId)) @@ conversations
       /\ searchParameters' = (id :> searchParams) @@ searchParameters
       /\ multiCitySegments' = (id :> << >>) @@ multiCitySegments
       /\ messages' = (id :> <<greeting>>) @@ messages
       /\ urlCall' = UndefinedRecord
       /\ response' = [op |-> op, status |-> 201, conversation_id |-> id,
                       ai_response |-> UndefinedRecord]
     ELSE
       \E ai \in aiOutcomes :
         LET aiResponse ==
               generateResponse("reply", ai.extractedParams, searchParams)
             reply == [role |-> "assistant", content |-> aiResponse.content]
             mergedRow ==
               IF aiResponse.extracted_params # UndefinedRecord
               THEN updateSearchParameters(
                      searchParams,
                      mergeParameters(aiResponse.extracted_params, searchParams))
               ELSE searchParams
         IN
         IF ~ai.ok
         THEN \* generateResponse throws after the query was saved
           /\ conversations' = (id :> createConversation(userId)) @@ conversations
           /\ searchParameters' = (id :> searchParams) @@ searchParameters
           /\ multiCitySegments' = (id :> << >>) @@ multiCitySegments
           /\ messages' = (id :> <<greeting, userMessage>>) @@ messages
           /\ urlCall' = UndefinedRecord
           /\ response' = [op |-> op, status |-> 500, conversation_id |-> Undefined,
                           ai_response |-> UndefinedRecord]
         ELSE
           /\ conversations' =
                (id :> [createConversation(userId) EXCEPT
                          !.current_step = aiResponse.next_step]) @@ conversations
           /\ searchParameters' = (id :> mergedRow) @@ searchParameters
           /\ multiCitySegments' = (id :> << >>) @@ multiCitySegments
           /\ messages' = (id :> <<greeting, userMessage, reply>>) @@ messages
           /\ urlCall' = UndefinedRecord
           /\ response' = [op |-> op, status |-> 201, conversation_id |-> id,
                           ai_response |-> aiResponse]
  /\ UNCHANGED <<mergeVars, seqVars, evalVars, segVars, valVars, replaceVars, cycleVars, chatVars, corsVars>>

\* POST /api/conversations
PostConversations(req) == PostConversationsWith(req, AiOutcomes)

(***************************************************************************)
(* GET and PUT /api/conversations/:conversationId/parameters               *)
(***************************************************************************)
\* IATACode: three uppercase letters.
IATACode(code) == code \in {"SYD", "MEL", "NRT", "HND", "LAX"}

\* The regex of FutureDate, /^\d{4}-\d{2}-\d{2}$/, on the strings of the model.
IsDateString(date) ==
  date \in {"2025-05-15", "2025-05-16", "2025-06-01", "2025-06-10", "2025-06-20",
            "2025-07-01", "2025-07-15"}

\* Faulty variant: a date exactly 14 days ahead is refused.
FutureDate_Strict(date) ==
  /\ IsDateString(date)
  /\ DateValue(date) * 24 > now + 14 * 24

\* FutureDate: YYYY-MM-DD and parsedDate >= minDate, where minDate is the
\* instant of the validation (new Date(), here the hour `now`) moved 14
\* days ahead and parsedDate is midnight UTC of the date.
FutureDate(date) ==
  /\ IsDateString(date)
  /\ DateValue(date) * 24 >= now + 14 * 24

\* MultiCitySegmentSchema, on the fields a request carries.
MultiCitySegmentSchema(seg) ==
  /\ seg.sequence_order >= 1
  /\ IATACode(seg.origin_code)
  /\ seg.origin_name # ""
  /\ IATACode(seg.destination_code)
  /\ seg.destination_name # ""
  /\ FutureDate(seg.departure_date)
  /\ seg.origin_code # seg.destination_code

\* The issues the fields of SearchParametersObject raise on data, each one
\* the path and the code of a ZodIssue.  A date that fails the regex also
\* fails the refinement of FutureDate (new Date of it is invalid).  The
\* conversation_id is a uuid in every record validated here.
FieldIssues(data) ==
  LET Issue(path, code) == [path |-> path, code |-> code]
      iata(path) ==
        IF data[path] = Undefined \/ IATACode(data[path]) THEN {}
        ELSE {Issue(path, "invalid_string")}
      date(path) ==
        IF data[path] = Undefined \/ FutureDate(data[path]) THEN {}
        ELSE IF IsDateString(data[path]) THEN {Issue(path, "custom")}
        ELSE {Issue(path, "invalid_string"), Issue(path, "custom")}
      count(path, least, most) ==
        IF data[path] = UndefinedNum THEN {}
        ELSE IF data[path] < least THEN {Issue(path, "too_small")}
        ELSE IF data[path] > most THEN {Issue(path, "too_big")}
        ELSE {}
      enum(path, values) ==
        IF data[path] = Undefined \/ data[path] \in values THEN {}
        ELSE {Issue(path, "invalid_enum_value")}
      segmentList ==
        IF /\ data.multi_city_segments.defined
           /\ \E i \in 1..Len(data.multi_city_segments.items) :
                ~MultiCitySegmentSchema(data.multi_city_segments.items[i])
        THEN {Issue("multi_city_segments", "invalid_segment")}
        ELSE {}
  IN iata("origin_code") \cup iata("destination_code")
       \cup date("departure_date") \cup date("return_date")
       \cup enum("trip_type", TripTypes)
       \cup count("adults", 1, 9) \cup count("children", 0, 8)
       \cup count("infants", 0, 8)
       \cup enum("cabin_class", {"Y", "S", "C", "F"})
       \cup segmentList

\* The object SearchParametersObject returns for data: the defaults are
\* filled in where data leaves the field out.
WithDefaults(data) ==
  [data EXCEPT
     !.trip_type = IF @ = Undefined THEN "return" ELSE @,
     !.adults = IF @ = UndefinedNum THEN 1 ELSE @,
     !.children = IF @ = UndefinedNum THEN 0 ELSE @,
     !.infants = IF @ = UndefinedNum THEN 0 ELSE @]

\* Faulty variant: as many infants as adults are refused.
InfantsWithinAdults_Fewer(data) == data.infants < data.adults

\* The first refinement of SearchParametersSchema.
InfantsWithinAdults(data) == data.infants <= data.adults

\* The second refinement: a return trip with both dates returns after it
\* departs (a comparison with an invalid Date is false).
ReturnAfterDeparture(data) ==
  (/\ data.trip_type = "return"
   /\ TruthyStr(data.departure_date)
   /\ TruthyStr(data.return_date))
    => /\ IsDateString(data.departure_date)
       /\ IsDateString(data.return_date)
       /\ DateValue(data.return_date) > DateValue(data.departure_date)

\* The third refinement.
OriginDiffersFromDestination(data) ==
  (TruthyStr(data.origin_code) /\ TruthyStr(data.destination_code))
    => data.origin_code # data.destination_code

\* The fourth refinement.
MulticityHasTwoSegments(data) ==
  data.trip_type = "multicity"
    => /\ data.multi_city_segments.defined
       /\ Len(data.multi_city_segments.items) >= 2

\* The issues of the four refinements on the object the base schema
\* returned.
RefinementIssues(data) ==
  LET Issue(path) == [path |-> path, code |-> "custom"]
  IN (IF InfantsWithinAdults(data) THEN {} ELSE {Issue("infants")})
       \cup (IF ReturnAfterDeparture(data) THEN {} ELSE {Issue("return_date")})
       \cup (IF OriginDiffersFromDestination(data) THEN {}
             ELSE {Issue("destination_code")})
       \cup (IF MulticityHasTwoSegments(data) THEN {}
             ELSE {Issue("multi_city_segments")})

\* validateSearchParameters(data): SearchParametersSchema.parse(data), as
\* whether it returns and the issues of the ZodError it throws otherwise.
\* A value outside an enum aborts the parse of the object, and the
\* refinements run only on an object that was not aborted.
validateSearchParameters(data) ==
  LET aborted ==
        \E issue \in FieldIssues(data) : issue.code = "invalid_enum_value"
      issues ==
        IF aborted THEN FieldIssues(data)
        ELSE FieldIssues(data) \cup RefinementIssues(WithDefaults(data))
  IN [ok |-> issues = {}, issues |-> issues]

\* Faulty variant: the partial schema with the refinements on top.
UpdateSearchParametersSchema_Refined(body) ==
  validateSearchParameters(body).ok

\* Faulty variant: every body is accepted.
UpdateSearchParametersSchema_AcceptsAll(body) == TRUE

\* UpdateSearchParametersSchema.parse(body) succeeds: every field the body
\* carries passes its own schema; the refinements across fields are not
\* part of this schema.
UpdateSearchParametersSchema(body) ==
  /\ body.origin_code # Undefined => IATACode(body.origin_code)
  /\ body.destination_code # Undefined => IATACode(body.destination_code)
  /\ body.departure_date # Undefined => FutureDate(body.departure_date)
  /\ body.return_date # Undefined => FutureDate(body.return_date)
  /\ body.trip_type # Undefined => body.trip_type \in TripTypes
  /\ body.adults # UndefinedNum => body.adults \in 1..9
  /\ body.children # UndefinedNum => body.children \in 0..8
  /\ body.infants # UndefinedNum => body.infants \in 0..8
  /\ body.cabin_class # Undefined => body.cabin_class \in {"Y", "S", "C", "F"}
  /\ body.multi_city_segments.defined =>
       \A i \in 1..Len(body.multi_city_segments.items) :
         MultiCitySegmentSchema(body.multi_city_segments.items[i])

\* urlGenerator.generateBookingURL(params, attribution), when it returns.
generateBookingURL(searchParams) == "booking-url"

\* Faulty variant: asks for a booking URL whatever the row holds.
GetWantsBookingURL_Always(searchParams) == TRUE

\* Whether the GET asks for a booking URL.
GetWantsBookingURL(searchParams) == searchParams.is_complete

\* Whether the PUT replaces the stored segments of the row.
PutReplacesSegments(validatedBody, body) ==
  validatedBody.trip_type = "multicity" /\ body.multi_city_segments.defined

\* Faulty variant: the rows keep the sequence_order the client sent.
PutSegmentRows_KeepsOrder(body) == body.multi_city_segments.items

\* The rows the PUT creates from the segments of the body.
PutSegmentRows(body) ==
  [index \in 1..Len(body.multi_city_segments.items) |->
     [body.multi_city_segments.items[index] EXCEPT !.sequence_order = index]]

\* The completeness the PUT computes after the update.
PutIsComplete(updatedParams, body) ==
  /\ TruthyStr(updatedParams.origin_code)
  /\ TruthyStr(updatedParams.destination_code)
  /\ TruthyStr(updatedParams.departure_date)
  /\ (updatedParams.trip_type # "return" \/ TruthyStr(updatedParams.return_date))
  /\ \/ updatedParams.trip_type # "multicity"
     \/ /\ body.multi_city_segments.defined
        /\ Len(body.multi_city_segments.items) >= 2

\* Faulty variant: marks the conversation complete whether or not the
\* booking URL was generated.
PutConversation_BeforeUrl(conversation, isComplete, urlReturned, generatedUrl) ==
  IF isComplete
  THEN [conversation EXCEPT !.current_step = "complete"]
  ELSE conversation

\* The conversation row after the PUT: updated only when the record is
\* complete and generateBookingURL returned.
PutConversation(conversation, isComplete, urlReturned, generatedUrl) ==
  IF isComplete /\ urlReturned
  THEN [conversation EXCEPT !.generated_url = generatedUrl,
                            !.current_step = "complete"]
  ELSE conversation

\* The body of the PUT's 200 answer: the answer with the completeness the
\* handler computed.
PutSucceeded(answer, isComplete) == answer @@ [is_complete |-> isComplete]

\* Faulty variant: the row is left as the update wrote it, with the
\* is_complete the body carried.
PutPersistCompleteness_KeepsSent(updatedParams, isComplete) == updatedParams

\* The row after the PUT persisted the completeness, if it changed.
PutPersistCompleteness(updatedParams, isComplete) ==
  IF isComplete # updatedParams.is_complete
  THEN updateSearchParameters(updatedParams, [is_complete |-> isComplete])
  ELSE updatedParams

\* Segment lists a client can send.
OtherSegments ==
  <<[sequence_order |-> 1, origin_code |-> "MEL", origin_name |-> "Melbourne",
     destination_code |-> "HND", destination_name |-> "Tokyo",
     departure_date |-> "2025-07-01"],
    [sequence_order |-> 2, origin_code |-> "HND", origin_name |-> "Tokyo",
     destination_code |-> "LAX", destination_name |-> "Los Angeles",
     departure_date |-> "2025-07-15"]>>

\* Bodies of the PUT: partial SearchParameters objects.
PutBodies ==
  {[EmptyExtraction EXCEPT !.origin_code = "SYD", !.destination_code = "NRT",
                           !.departure_date = "2025-06-01", !.trip_type = "oneway"],
   [EmptyExtraction EXCEPT !.trip_type = "return"],
   [EmptyExtraction EXCEPT !.trip_type = "multicity",
                           !.multi_city_segments = List(TwoSegments)],
   [EmptyExtraction EXCEPT !.multi_city_segments = List(OtherSegments)],
   [EmptyExtraction EXCEPT !.infants = 2],
   [EmptyExtraction EXCEPT !.adults = 0]}

\* Requests on the parameters of a conversation; 0 is an id no conversation
\* has.
ConversationIds == 0..MaxConversations

\* GET /api/conversations/:conversationId/parameters
GetParameters(conversationId) ==
  LET op == "GET /api/conversations/:conversationId/parameters"
  IN
  /\ IF \/ conversationId \notin DOMAIN conversations
        \/ conversationId \notin DOMAIN searchParameters
     THEN
       /\ response' = [op |-> op, status |-> 404, conversation_id |-> conversationId,
                       ai_response |-> UndefinedRecord, booking_url |-> Undefined]
       /\ urlCall' = UndefinedRecord
     ELSE
       LET searchParams == searchParameters[conversationId]
       IN IF GetWantsBookingURL(searchParams)
          THEN
            /\ urlCall' = searchParams
            /\ \E urlReturned \in BOOLEAN :
                 response' =
                   IF urlReturned
                   THEN [op |-> op, status |-> 200, conversation_id |-> conversationId,
                         ai_response |-> UndefinedRecord,
                         booking_url |-> generateBookingURL(searchParams)]
                   ELSE [op |-> op, status |-> 500, conversation_id |-> conversationId,
                         ai_response |-> UndefinedRecord, booking_url |-> Undefined]
          ELSE
            /\ urlCall' = UndefinedRecord
            /\ response' = [op |-> op, status |-> 200, conversation_id |-> conversationId,
                            ai_response |-> UndefinedRecord, booking_url |-> Undefined]
  /\ UNCHANGED <<dbVars, mergeVars, seqVars, evalVars, segVars, valVars, replaceVars, cycleVars, chatVars, corsVars>>

\* PUT /api/conversations/:conversationId/parameters
PutParameters(conversationId, body) ==
  LET op == "PUT /api/conversations/:conversationId/parameters"
      answer(status, url) ==
        [op |-> op, status |-> status, conversation_id |-> conversationId,
         ai_response |-> UndefinedRecord, booking_url |-> url]
  IN
  /\ IF ~UpdateSearchParametersSchema(body)
     THEN \* ZodError
       /\ response' = answer(400, Undefined)
       /\ urlCall' = UndefinedRecord
       /\ UNCHANGED dbVars
     ELSE IF conversationId \notin DOMAIN conversations
     THEN
       /\ response' = answer(404, Undefined)
       /\ urlCall' = UndefinedRecord
       /\ UNCHANGED dbVars
     ELSE IF conversations[conversationId].status # "active"
     THEN
       /\ response' = answer(400, Undefined)
       /\ urlCall' = UndefinedRecord
       /\ UNCHANGED dbVars
     ELSE IF conversationId \notin DOMAIN searchParameters
     THEN
       /\ response' = answer(404, Undefined)
       /\ urlCall' = UndefinedRecord
       /\ UNCHANGED dbVars
     ELSE
       LET validatedBody == body
           updatedParams ==
             updateSearchParameters(searchParameters[conversationId], validatedBody)
           isComplete == PutIsComplete(updatedParams, body)
           finalParams == PutPersistCompleteness(updatedParams, isComplete)
       IN
       /\ searchParameters' = [searchParameters EXCEPT ![conversationId] = finalParams]
       /\ multiCitySegments' =
            IF PutReplacesSegments(validatedBody, body)
            THEN [multiCitySegments EXCEPT ![conversationId] = PutSegmentRows(body)]
            ELSE multiCitySegments
       /\ UNCHANGED messages
       /\ IF isComplete
          THEN
            /\ urlCall' = finalParams
            /\ \E urlReturned \in BOOLEAN :
                 /\ conversations' =
                      [conversations EXCEPT
                         ![conversationId] =
                           PutConversation(@, isComplete, urlReturned,
                                           generateBookingURL(finalParams))]
                 /\ response' =
                      IF urlReturned
                      THEN PutSucceeded(answer(200, generateBookingURL(finalParams)), isComplete)
                      ELSE answer(500, Undefined)
          ELSE
            /\ urlCall' = UndefinedRecord
            /\ UNCHANGED conversations
            /\ response' = PutSucceeded(answer(200, Undefined), isComplete)
  /\ UNCHANGED <<mergeVars, seqVars, evalVars, segVars, valVars, replaceVars, cycleVars, chatVars, corsVars>>

Next ==
  \/ \E req \in CreateRequests : PostConversations(req)
  \/ \E conversationId \in ConversationIds : GetParameters(conversationId)
  \/ \E conversationId \in ConversationIds, body \in PutBodies :
       PutParameters(conversationId, body)

Spec == Init /\ [][Next]_vars

(***************************************************************************)
(* SpecParameters: the parameter endpoints on conversations that were      *)
(* opened without a query or with a query the model read a whole one-way   *)
(* trip from.                                                              *)
(***************************************************************************)
OpeningRequests ==
  {req \in CreateRequests :
     req.valid /\ req.diag = "none" /\ req.user_id = "user-1"
     /\ req.initial_query # "" /\ req.db = "ok"}

OpeningOutcomes ==
  {[ok |-> TRUE,
    extractedParams |->
      [EmptyExtraction EXCEPT !.origin_code = "SYD", !.destination_code = "NRT",
                              !.departure_date = "2025-06-01",
                              !.trip_type = "oneway"]]}

NextParameters ==
  \/ \E req \in OpeningRequests : PostConversationsWith(req, OpeningOutcomes)
  \/ \E conversationId \in ConversationIds : GetParameters(conversationId)
  \/ \E conversationId \in ConversationIds, body \in PutBodies :
       PutParameters(conversationId, body)

SpecParameters == Init /\ [][NextParameters]_vars

(***************************************************************************)
(* SpecSegments: the parameter endpoints with the bodies that carry a      *)
(* segment list, one of them numbered against the order of its entries.    *)
(***************************************************************************)
\* The two segments numbered against their position in the list.
ShuffledSegments == <<TwoSegments[2], TwoSegments[1]>>

SegmentBodies ==
  {body \in PutBodies : body.multi_city_segments.defined}
    \cup {[EmptyExtraction EXCEPT !.trip_type = "multicity",
                                  !.multi_city_segments = List(list)] :
            list \in {ShuffledSegments, OtherSegments,
                      <<OtherSegments[2], OtherSegments[1]>>,
                      <<TwoSegments[2]>>}}

NextSegments ==
  \/ \E req \in OpeningRequests : PostConversationsWith(req, OpeningOutcomes)
  \/ \E conversationId \in ConversationIds : GetParameters(conversationId)
  \/ \E conversationId \in ConversationIds, body \in SegmentBodies :
       PutParameters(conversationId, body)

SpecSegments == Init /\ [][NextSegments]_vars

(***************************************************************************)
(* SpecFlag: the parameter endpoints with bodies that carry an is_complete *)
(* of the client's choosing.                                               *)
(***************************************************************************)
\* A return trip is only asked for with is_complete true, a one-way trip
\* only with is_complete false.
FlagBodies ==
  {EmptyExtraction @@ [is_complete |-> flag] : flag \in BOOLEAN}
    \cup {[EmptyExtraction EXCEPT !.return_date = "2025-06-20"]
            @@ [is_complete |-> flag] : flag \in BOOLEAN}
    \cup {[EmptyExtraction EXCEPT !.destination_code = "HND"]
            @@ [is_complete |-> flag] : flag \in BOOLEAN}
    \cup {[EmptyExtraction EXCEPT !.trip_type = "return"] @@ [is_complete |-> TRUE],
          [EmptyExtraction EXCEPT !.trip_type = "oneway"] @@ [is_complete |-> FALSE]}

NextFlag ==
  \/ \E req \in OpeningRequests : PostConversationsWith(req, OpeningOutcomes)
  \/ \E conversationId \in ConversationIds : GetParameters(conversationId)
  \/ \E conversationId \in ConversationIds, body \in FlagBodies :
       PutParameters(conversationId, body)

SpecFlag == Init /\ [][NextFlag]_vars

(***************************************************************************)
(* SpecReject: the parameter endpoints with bodies the schema refuses      *)
(* among bodies it accepts.                                                *)
(***************************************************************************)
RejectBodies ==
  {[EmptyExtraction EXCEPT !.adults = 0],
   [EmptyExtraction EXCEPT !.origin_code = "sydney"],
   [EmptyExtraction EXCEPT !.trip_type = "return"],
   [EmptyExtraction EXCEPT !.return_date = "2025-06-20"],
   [EmptyExtraction EXCEPT !.destination_code = "HND"]}

\* The requests that open a conversation, with and without the failure of
\* db.createSearchParameters that leaves it without a parameter record.
RejectOpenings ==
  {req \in CreateRequests :
     req.valid /\ req.diag = "none" /\ req.user_id = "user-1"
     /\ req.initial_query # ""}

NextReject ==
  \/ \E req \in RejectOpenings : PostConversationsWith(req, OpeningOutcomes)
  \/ \E conversationId \in ConversationIds : GetParameters(conversationId)
  \/ \E conversationId \in ConversationIds, body \in RejectBodies :
       PutParameters(conversationId, body)

SpecReject == Init /\ [][NextReject]_vars

(***************************************************************************)
(* SpecReplace: one conversation with stored segments, the PUT on its      *)
(* parameters taken one awaited database call at a time, and reads of the  *)
(* stored segments in between.                                             *)
(***************************************************************************)
\* The conversation the requests are about.
ReplacedId == 1

\* The body of the PUT that stored the segments the conversation starts with.
FirstSegmentsBody ==
  [EmptyExtraction EXCEPT !.trip_type = "multicity",
                          !.multi_city_segments = List(TwoSegments)]

\* The database after POST /api/conversations without a query and a PUT
\* with FirstSegmentsBody.
InitReplace ==
  /\ conversations = [id \in {ReplacedId} |-> createConversation("user-1")]
  /\ searchParameters =
       [id \in {ReplacedId} |-> updateSearchParameters(CreatedRecord, FirstSegmentsBody)]
  /\ multiCitySegments = [id \in {ReplacedId} |-> PutSegmentRows(FirstSegmentsBody)]
  /\ messages = [id \in {ReplacedId} |-> << >>]
  /\ response = UndefinedRecord
  /\ urlCall = UndefinedRecord
  /\ replacing = UndefinedRecord
  /\ readResult = UndefinedList
  /\ IdleMerge
  /\ IdleSeq
  /\ IdleEval
  /\ IdleSeg
  /\ IdleVal
  /\ IdleCycles
  /\ IdleChat
  /\ IdleCors

\* What the PUT answers.
PutAnswer(status, url) ==
  [op |-> "PUT /api/conversations/:conversationId/parameters", status |-> status,
   conversation_id |-> ReplacedId, ai_response |-> UndefinedRecord,
   booking_url |-> url]

\* The PUT up to the update of the row: the body is parsed, the
\* conversation and its row are read, the row is updated.
PutUpdateRow(body) ==
  /\ replacing = UndefinedRecord
  /\ IF ~UpdateSearchParametersSchema(body)
     THEN
       /\ response' = PutAnswer(400, Undefined)
       /\ UNCHANGED <<searchParameters, replacing>>
     ELSE
       LET updatedParams ==
             updateSearchParameters(searchParameters[ReplacedId], body)
       IN /\ searchParameters' =
               [searchParameters EXCEPT ![ReplacedId] = updatedParams]
          /\ replacing' = [body |-> body, updatedParams |-> updatedParams,
                           at |-> "updateSearchParameters",
                           before |-> [parameters |-> searchParameters[ReplacedId],
                                       segments |-> multiCitySegments[ReplacedId]]]
          /\ UNCHANGED response
  /\ UNCHANGED <<conversations, multiCitySegments, messages, urlCall, readResult,
                 mergeVars, seqVars, evalVars, segVars, valVars, cycleVars, chatVars, corsVars>>

\* await db.deleteMultiCitySegments(updatedParams.id)
PutDeleteSegments ==
  /\ replacing # UndefinedRecord
  /\ replacing.at = "updateSearchParameters"
  /\ PutReplacesSegments(replacing.body, replacing.body)
  /\ multiCitySegments' = [multiCitySegments EXCEPT ![ReplacedId] = << >>]
  /\ replacing' = [replacing EXCEPT !.at = "deleteMultiCitySegments"]
  /\ UNCHANGED <<conversations, searchParameters, messages, response, urlCall,
                 readResult, mergeVars, seqVars, evalVars, segVars, valVars,
                 cycleVars, chatVars, corsVars>>

\* await db.createMultiCitySegments(segments)
PutCreateSegments ==
  /\ replacing # UndefinedRecord
  /\ replacing.at = "deleteMultiCitySegments"
  /\ multiCitySegments' =
       [multiCitySegments EXCEPT ![ReplacedId] = PutSegmentRows(replacing.body)]
  /\ replacing' = [replacing EXCEPT !.at = "createMultiCitySegments"]
  /\ UNCHANGED <<conversations, searchParameters, messages, response, urlCall,
                 readResult, mergeVars, seqVars, evalVars, segVars, valVars,
                 cycleVars, chatVars, corsVars>>

\* await db.createMultiCitySegments(segments) rejects: the catch block
\* answers 500.
PutCreateSegmentsRejects ==
  /\ replacing # UndefinedRecord
  /\ replacing.at = "deleteMultiCitySegments"
  /\ response' = PutAnswer(500, Undefined)
  /\ urlCall' = UndefinedRecord
  /\ replacing' = UndefinedRecord
  /\ UNCHANGED <<dbVars, readResult, mergeVars, seqVars, evalVars, segVars,
                 valVars, cycleVars, chatVars, corsVars>>

\* The rest of the PUT: the completeness is computed and persisted, the
\* URL generated, the conversation updated, the answer sent.
PutFinish ==
  /\ replacing # UndefinedRecord
  /\ \/ replacing.at = "createMultiCitySegments"
     \/ /\ replacing.at = "updateSearchParameters"
        /\ ~PutReplacesSegments(replacing.body, replacing.body)
  /\ LET isComplete == PutIsComplete(replacing.updatedParams, replacing.body)
         finalParams ==
           IF isComplete # replacing.updatedParams.is_complete
           THEN updateSearchParameters(searchParameters[ReplacedId],
                                       [is_complete |-> isComplete])
           ELSE searchParameters[ReplacedId]
     IN /\ searchParameters' = [searchParameters EXCEPT ![ReplacedId] = finalParams]
        /\ IF isComplete
           THEN
             /\ urlCall' = finalParams
             /\ \E urlReturned \in BOOLEAN :
                  /\ conversations' =
                       [conversations EXCEPT
                          ![ReplacedId] =
                            PutConversation(@, isComplete, urlReturned,
                                            generateBookingURL(finalParams))]
                  /\ response' =
                       IF urlReturned
                       THEN PutSucceeded(PutAnswer(200, generateBookingURL(finalParams)),
                                         isComplete)
                       ELSE PutAnswer(500, Undefined)
           ELSE
             /\ urlCall' = UndefinedRecord
             /\ UNCHANGED conversations
             /\ response' = PutSucceeded(PutAnswer(200, Undefined), isComplete)
  /\ replacing' = UndefinedRecord
  /\ UNCHANGED <<multiCitySegments, messages, readResult, mergeVars, seqVars,
                 evalVars, segVars, valVars, cycleVars, chatVars, corsVars>>

\* A read of the segments stored for the conversation.
ReadSegments ==
  /\ readResult' = List(multiCitySegments[ReplacedId])
  /\ UNCHANGED <<dbVars, response, urlCall, replacing, mergeVars, seqVars,
                 evalVars, segVars, valVars, cycleVars, chatVars, corsVars>>

NextReplace ==
  \/ \E body \in PutBodies : PutUpdateRow(body)
  \/ PutDeleteSegments
  \/ PutCreateSegments
  \/ PutCreateSegmentsRejects
  \/ PutFinish
  \/ ReadSegments

SpecReplace == InitReplace /\ [][NextReplace]_vars

(***************************************************************************)
(* SpecCycles: the read-merge-write cycle of a turn (getSearchParameters,  *)
(* generateResponse, mergeParameters, updateSearchParameters) run twice on *)
(* the record of one conversation, each cycle taken one awaited call at a  *)
(* time.                                                                   *)
(***************************************************************************)
Cycles == {1, 2}

\* What the model extracts in the turn of a cycle.
CycleExtractions ==
  {[EmptyExtraction EXCEPT !.trip_type = "oneway"],
   [EmptyExtraction EXCEPT !.origin_code = "SYD"],
   [EmptyExtraction EXCEPT !.destination_code = "NRT"],
   [EmptyExtraction EXCEPT !.destination_code = "HND", !.adults = 3]}

InitCycles ==
  /\ record = CreatedRecord
  /\ applied = FALSE
  /\ cycles \in [Cycles -> {[at |-> "start", extraction |-> e,
                             read |-> UndefinedRecord, wrote |-> 0] :
                              e \in CycleExtractions}]
  /\ overlapped = FALSE
  /\ IdleMerge
  /\ IdleEval
  /\ IdleSeg
  /\ IdleVal
  /\ IdleReplace
  /\ IdleChat
  /\ IdleCors
  /\ IdleServer

\* const searchParams = await db.getSearchParameters(conversation.id)
CycleRead(c) ==
  /\ cycles[c].at = "start"
  /\ cycles' = [cycles EXCEPT ![c].at = "getSearchParameters", ![c].read = record]
  /\ overlapped' =
       (overlapped \/ \E d \in Cycles \ {c} : cycles[d].at = "getSearchParameters")
  /\ UNCHANGED <<record, applied, mergeVars, evalVars, segVars, valVars,
                 replaceVars, chatVars, corsVars, serverVars>>

\* await db.updateSearchParameters(conversation.id, merged), with merged the
\* merge of what the turn extracted into the record the cycle read.
CycleWrite(c) ==
  /\ cycles[c].at = "getSearchParameters"
  /\ cycles[c].extraction # UndefinedRecord /\ cycles[c].read # UndefinedRecord
  /\ record' =
       updateSearchParameters(record,
                              mergeParameters(cycles[c].extraction, cycles[c].read))
  /\ cycles' =
       [cycles EXCEPT
          ![c].at = "updateSearchParameters",
          ![c].wrote =
            1 + Cardinality({d \in Cycles : cycles[d].at = "updateSearchParameters"})]
  /\ UNCHANGED <<applied, overlapped, mergeVars, evalVars, segVars, valVars,
                 replaceVars, chatVars, corsVars, serverVars>>

NextCycles == \E c \in Cycles : CycleRead(c) \/ CycleWrite(c)

SpecCycles == InitCycles /\ [][NextCycles]_vars

(***************************************************************************)
(* SpecValidate: one record handed to the schemas again and again while    *)
(* the clock advances by half a day at a time.                             *)
(***************************************************************************)
\* The records validated: fields left out, well formed, malformed, out of
\* range, and at odds with each other.
ValidationInputs ==
  {[EmptyExtraction EXCEPT
      !.origin_code = origin, !.destination_code = destination,
      !.departure_date = departure, !.return_date = return,
      !.trip_type = trip, !.adults = adults, !.infants = infants,
      !.multi_city_segments = segs] :
     origin \in {Undefined, "SYD", "sydney"},
     destination \in {Undefined, "SYD", "NRT"},
     departure \in {Undefined, "2025-05-15", "2025-05-16", "2025-06-10",
                    "tomorrow"},
     return \in {Undefined, "2025-06-01"},
     trip \in {Undefined, "return", "multicity", "weekend"},
     adults \in {UndefinedNum, 0, 2},
     infants \in {UndefinedNum, 2, 3, 9},
     segs \in {UndefinedList, List(TwoSegments)}}

InitValidate ==
  /\ candidate \in ValidationInputs
  /\ now = RequestInstant
  /\ verdict = UndefinedRecord
  /\ agedOut = FALSE
  /\ IdleMerge
  /\ IdleSeq
  /\ IdleEval
  /\ IdleSeg
  /\ IdleReplace
  /\ IdleCycles
  /\ IdleChat
  /\ IdleCors
  /\ IdleServer

\* Half a day passes.
Tick ==
  /\ now < RequestInstant + 12 * MaxTicks
  /\ now' = now + 12
  /\ UNCHANGED <<candidate, verdict, agedOut, mergeVars, seqVars, evalVars,
                 segVars, replaceVars, cycleVars, chatVars, corsVars, serverVars>>

\* The candidate is validated at the present instant: as a whole record by
\* validateSearchParameters, as the body of a PUT by
\* UpdateSearchParametersSchema, and its departure date by FutureDate.
ValidateCandidate ==
  /\ verdict' = [at |-> now,
                 record |-> validateSearchParameters(candidate),
                 update |-> UpdateSearchParametersSchema(candidate),
                 date |-> FutureDate(candidate.departure_date)]
  /\ agedOut' = (agedOut \/ (/\ verdict # UndefinedRecord
                              /\ verdict.date
                              /\ ~FutureDate(candidate.departure_date)))
  /\ UNCHANGED <<candidate, now, mergeVars, seqVars, evalVars, segVars,
                 replaceVars, cycleVars, chatVars, corsVars, serverVars>>

NextValidate == Tick \/ ValidateCandidate

SpecValidate == InitValidate /\ [][NextValidate]_vars

(***************************************************************************)
(* SpecTurn: one turn of the chat engine, generateResponse and the merge   *)
(* of what it extracted, on every extraction and current parameters.       *)
(***************************************************************************)
\* What the tool call of a turn carried: undefined when the model made none.
TurnInputs == {UndefinedRecord} \cup ModelOutputs

\* The currentParams of a turn: undefined, or a SearchParameters value with
\* or without its segments.
TurnCurrents ==
  {UndefinedRecord} \cup
  {r \in
     [origin_code      : {Undefined, "SYD"},
      origin_name      : {Undefined},
      destination_code : {Undefined, "LAX"},
      destination_name : {Undefined},
      departure_date   : {Undefined, "2025-07-01"},
      return_date      : {Undefined, "2025-07-15"},
      trip_type        : TripTypes,
      adults           : {1},
      children         : {0},
      infants          : {0},
      cabin_class      : {Undefined},
      multi_city_segments : {UndefinedList, List(TwoSegments)},
      is_complete      : BOOLEAN] :
     /\ (r.is_complete => RowComplete(r))
     /\ (r.multi_city_segments.defined => r.trip_type = "multicity")}

InitTurn ==
  /\ extracted \in TurnInputs
  /\ current \in TurnCurrents
  /\ merged = UndefinedRecord
  /\ turnResponse = UndefinedRecord
  /\ IdleSeq
  /\ IdleEval
  /\ IdleSeg
  /\ IdleVal
  /\ IdleReplace
  /\ IdleCycles
  /\ IdleChat
  /\ IdleCors
  /\ IdleServer

\* generateResponse, then the merge the caller makes of extracted_params.
RunTurn ==
  /\ turnResponse = UndefinedRecord
  /\ turnResponse' = generateResponse("reply", extracted, current)
  /\ merged' =
       IF extracted # UndefinedRecord /\ current # UndefinedRecord
       THEN mergeParameters(extracted, current)
       ELSE UndefinedRecord
  /\ UNCHANGED <<extracted, current, seqVars, evalVars, segVars, valVars, replaceVars, cycleVars, chatVars, corsVars, serverVars>>

NextTurn == RunTurn

SpecTurn == InitTurn /\ [][NextTurn]_vars

(***************************************************************************)
(* The two handlers that store chat messages:                              *)
(* POST /api/conversations/:conversationId/messages and                    *)
(* POST /api/chat/stream, with the onFinish callback of the stream.        *)
(***************************************************************************)
\* The longest message list a conversation holds.
MaxMessages == 2

\* Conversations 1 and 2 are active, conversation 3 is not, 4 is unknown.
\* Conversation 2 has no parameter row and no message: POST
\* /api/conversations leaves it so when createSearchParameters rejects.
\* The database gives conversation 3 its status; no handler writes it.
ChatConversations == 1..3

\* conversationId of the path: 0 is a request without one.
MessagePathIds == 0..4

\* conversation_id of a stream body: 0 is a string that is not a UUID.
StreamBodyIds == 0..4

\* z.string().uuid()
IsUuid(conversation_id) == conversation_id # 0

InitMessages ==
  /\ conversations =
       [id \in ChatConversations |->
          IF id = 3
          THEN [createConversation("user-1") EXCEPT !.status = "completed"]
          ELSE createConversation("user-1")]
  /\ searchParameters = [id \in {1, 3} |-> CreatedRecord]
  /\ multiCitySegments = [id \in {1, 3} |-> << >>]
  /\ messages =
       [id \in ChatConversations |->
          IF id = 2
          THEN << >>
          ELSE <<[role |-> "assistant",
                  content |-> generateInitialMessage(Undefined)]>>]
  /\ response = UndefinedRecord
  /\ urlCall = UndefinedRecord
  /\ streamCall = UndefinedRecord
  /\ IdleMerge
  /\ IdleSeq
  /\ IdleEval
  /\ IdleSeg
  /\ IdleVal
  /\ IdleReplace
  /\ IdleCycles
  /\ IdleCors

\* Bodies of POST /messages: a user message, one with a role outside the
\* enum, one with empty content.
MessageBodies ==
  {[role |-> "user", content |-> "hi"],
   [role |-> "tool", content |-> "hi"],
   [role |-> "assistant", content |-> ""]}

\* CreateMessageSchema
CreateMessageSchema(body) ==
  /\ body.role \in {"user", "assistant", "system"}
  /\ body.content # ""

\* Bodies of POST /api/chat/stream.
StreamBodies ==
  {[conversation_id |-> id, message |-> message] :
     id \in StreamBodyIds, message \in {"", "Paris"}}

\* StreamChatRequestSchema
StreamChatRequestSchema(body) ==
  /\ IsUuid(body.conversation_id)
  /\ body.message # ""

\* db.getConversation(id): undefined when there is no row.
getConversation(id) ==
  IF id \in DOMAIN conversations THEN conversations[id] ELSE UndefinedRecord

\* db.getSearchParameters(id): undefined when there is no row.
getSearchParameters(id) ==
  IF id \in DOMAIN searchParameters THEN searchParameters[id] ELSE UndefinedRecord

\* What a message handler answers.
MessageAnswer(op, status, id) ==
  [op |-> op, status |-> status, conversation_id |-> id]

\* The guard without its status test.
ConversationGuard_ExistenceOnly(id) ==
  IF getConversation(id) = UndefinedRecord THEN 404 ELSE 0

\* The guard both handlers run before db.createMessage: the status they
\* answer, 0 when the request passes.
ConversationGuard(id) ==
  IF getConversation(id) = UndefinedRecord THEN 404
  ELSE IF getConversation(id).status # "active" THEN 400
  ELSE 0

\* db.createMessage(message): the rows of the conversation after it.
createMessage(id, message) ==
  [messages EXCEPT ![id] = Append(@, message)]

\* POST /api/conversations/:conversationId/messages
PostMessages(conversationId, body) ==
  LET op == "POST /api/conversations/:conversationId/messages"
      guard == ConversationGuard(conversationId)
  IN
  /\ IF conversationId = 0
     THEN /\ response' = MessageAnswer(op, 400, conversationId)
          /\ UNCHANGED messages
     ELSE IF ~CreateMessageSchema(body)
     THEN /\ response' = MessageAnswer(op, 400, conversationId)
          /\ UNCHANGED messages
     ELSE IF guard # 0
     THEN /\ response' = MessageAnswer(op, guard, conversationId)
          /\ UNCHANGED messages
     ELSE /\ Len(messages[conversationId]) < MaxMessages
          /\ \E ok \in BOOLEAN :
               IF ok
               THEN /\ messages' =
                         createMessage(conversationId,
                                       [role |-> body.role, content |-> body.content])
                    /\ response' = MessageAnswer(op, 201, conversationId)
               ELSE \* db.createMessage rejects
                    /\ response' = MessageAnswer(op, 500, conversationId)
                    /\ UNCHANGED messages
  /\ UNCHANGED <<conversations, searchParameters, multiCitySegments, urlCall,
                 mergeVars, seqVars, evalVars, segVars, valVars, replaceVars,
                 cycleVars, chatVars, corsVars>>

\* The system primer of the stream route: it quotes the parameter row.
SystemPrimer(searchParams) ==
  [role |-> "system", content |-> ToString(searchParams)]

\* The messages the stream route hands to streamText: the primer when a
\* parameter row exists, the history it read, and the message of the body.
ModelMessages(searchParams, history, message) ==
  (IF searchParams # UndefinedRecord THEN <<SystemPrimer(searchParams)>> ELSE << >>)
    \o history
    \o <<[role |-> "user", content |-> message]>>

\* POST /api/chat/stream
PostChatStream(body) ==
  LET op == "POST /api/chat/stream"
      id == body.conversation_id
      guard == ConversationGuard(id)
      userMessage == [role |-> "user", content |-> body.message]
      stored == createMessage(id, userMessage)
      history == stored[id]
      searchParams == getSearchParameters(id)
  IN
  /\ IF ~StreamChatRequestSchema(body)
     THEN /\ response' = MessageAnswer(op, 400, id)
          /\ UNCHANGED <<messages, streamCall>>
     ELSE IF guard # 0
     THEN /\ response' = MessageAnswer(op, guard, id)
          /\ UNCHANGED <<messages, streamCall>>
     ELSE /\ Len(messages[id]) < MaxMessages
          /\ \E ok \in BOOLEAN :
               IF ok
               THEN /\ messages' = stored
                    /\ streamCall' =
                         [conversation_id |-> id,
                          message |-> body.message,
                          stored |-> messages[id],
                          messages |-> ModelMessages(searchParams, history,
                                                     body.message),
                          finished |-> FALSE]
                    /\ response' = MessageAnswer(op, 200, id)
               ELSE \* streamText throws after the user message was saved
                    /\ messages' = stored
                    /\ response' = MessageAnswer(op, 500, id)
                    /\ UNCHANGED streamCall
  /\ UNCHANGED <<conversations, searchParameters, multiCitySegments, urlCall,
                 mergeVars, seqVars, evalVars, segVars, valVars, replaceVars,
                 cycleVars, corsVars>>

\* onFinish of the stream: the assistant's text is saved; a rejected save
\* is logged and dropped.
StreamOnFinish ==
  /\ streamCall # UndefinedRecord
  /\ ~streamCall.finished
  /\ Len(messages[streamCall.conversation_id]) < MaxMessages
  /\ streamCall' = [streamCall EXCEPT !.finished = TRUE]
  /\ \E ok \in BOOLEAN :
       IF ok
       THEN messages' =
              createMessage(streamCall.conversation_id,
                            [role |-> "assistant", content |-> "reply"])
       ELSE UNCHANGED messages
  /\ UNCHANGED <<conversations, searchParameters, multiCitySegments, response,
                 urlCall, mergeVars, seqVars, evalVars, segVars, valVars,
                 replaceVars, cycleVars, corsVars>>

NextMessages ==
  \/ \E conversationId \in MessagePathIds, body \in MessageBodies :
       PostMessages(conversationId, body)
  \/ \E body \in StreamBodies : PostChatStream(body)
  \/ StreamOnFinish

SpecMessages == InitMessages /\ [][NextMessages]_vars

(***************************************************************************)
(* The CORS middleware.  The repository holds two texts of                 *)
(* backend/middleware.ts that differ in the branch of the actual request;  *)
(* a request is handled by either.                                         *)
(***************************************************************************)
\* The texts of backend/middleware.ts.
MiddlewareCopies == {"src/backend/middleware.ts", "src/unnamed/part_000"}

\* String.prototype.trim on the entries of ALLOWED_ORIGINS.
Trim(entry) ==
  CASE entry = " https://a.example" -> "https://a.example"
    [] entry = " " -> ""
    [] OTHER -> entry

\* Values of ALLOWED_ORIGINS, split at the commas; an unset variable
\* splits into one empty entry.
AllowedOriginsValues ==
  {<<"">>,
   <<"https://a.example">>,
   <<" https://a.example", " ">>,
   <<"https://a.example", "https://b.example">>}

\* parseOrigins
parseOrigins(entries) ==
  SelectSeq([i \in DOMAIN entries |-> Trim(entries[i])], TruthyStr)

\* Requests: the path, the method, the Origin header (undefined when the
\* request has none) and the ALLOWED_ORIGINS of the deployment.
CorsRequests ==
  [copy : MiddlewareCopies,
   pathname : {"/api/chat/stream", "/health"},
   method : {"OPTIONS", "GET", "POST"},
   origin : {Undefined, "", "https://a.example", "https://evil.example"},
   allowed_origins : AllowedOriginsValues]

\* pathname.startsWith("/api/")
IsApiPath(pathname) == pathname = "/api/chat/stream"

\* Array.prototype.includes
Includes(list, item) == \E i \in DOMAIN list : list[i] = item

\* What the middleware answers: NextResponse.next() passes the request
\* on and has no status of its own.
CorsAnswer(passed, status, allowOrigin, allowCredentials) ==
  [passed |-> passed, status |-> status,
   allow_origin |-> allowOrigin, allow_credentials |-> allowCredentials]

\* const isAllowed = !origin || allowList.length === 0 || allowList.includes(origin)
isAllowed(origin, allowList) ==
  \/ ~TruthyStr(origin)
  \/ Len(allowList) = 0
  \/ Includes(allowList, origin)

\* The preflight branch, the same in both texts.
Preflight(origin, allowList) ==
  CorsAnswer(FALSE,
             IF isAllowed(origin, allowList) THEN 204 ELSE 403,
             IF TruthyStr(origin) /\ isAllowed(origin, allowList)
               THEN origin ELSE Undefined,
             isAllowed(origin, allowList))

\* middleware(req) of src/backend/middleware.ts
middleware(req) ==
  LET origin == req.origin
      allowList == parseOrigins(req.allowed_origins)
  IN
  IF ~IsApiPath(req.pathname)
  THEN CorsAnswer(TRUE, UndefinedNum, Undefined, FALSE)
  ELSE IF req.method = "OPTIONS"
  THEN Preflight(origin, allowList)
  ELSE IF isAllowed(origin, allowList)
  THEN (IF TruthyStr(origin)
        THEN CorsAnswer(TRUE, UndefinedNum, origin, TRUE)
        ELSE CorsAnswer(TRUE, UndefinedNum, Undefined, FALSE))
  ELSE CorsAnswer(FALSE, 403, Undefined, FALSE)

\* middleware(req) of src/unnamed/part_000
middleware_part_000(req) ==
  LET origin == req.origin
      allowList == parseOrigins(req.allowed_origins)
  IN
  IF ~IsApiPath(req.pathname)
  THEN CorsAnswer(TRUE, UndefinedNum, Undefined, FALSE)
  ELSE IF req.method = "OPTIONS"
  THEN Preflight(origin, allowList)
  ELSE IF TruthyStr(origin) /\ isAllowed(origin, allowList)
  THEN CorsAnswer(TRUE, UndefinedNum, origin, TRUE)
  ELSE CorsAnswer(FALSE, 403, Undefined, FALSE)

InitCors ==
  /\ corsRequest = UndefinedRecord
  /\ corsResponse = UndefinedRecord
  /\ IdleMerge
  /\ IdleSeq
  /\ IdleEval
  /\ IdleSeg
  /\ IdleVal
  /\ IdleReplace
  /\ IdleCycles
  /\ IdleChat
  /\ IdleServer

\* A request reaches the middleware.
Middleware(req) ==
  /\ corsRequest' = req
  /\ corsResponse' =
       IF req.copy = "src/unnamed/part_000"
       THEN middleware_part_000(req)
       ELSE middleware(req)
  /\ UNCHANGED <<mergeVars, seqVars, evalVars, segVars, valVars, replaceVars,
                 cycleVars, chatVars, serverVars>>

NextCors == \E req \in CorsRequests : Middleware(req)

SpecCors == InitCors /\ [][NextCors]_vars


(***************************************************************************)
(* Properties of the parameter merge.                                      *)
(***************************************************************************)
\* A string value that is present and non-empty.
NonEmpty(s) == s # Undefined /\ s # ""

\* A count that is present and non-zero.
NonZero(n) == n # UndefinedNum /\ n # 0

\* The value current holds in a string field; undefined when current is absent.
CurrentStr(f) == IF current = UndefinedRecord THEN Undefined ELSE current[f]

\* The value current holds in a count; undefined when current is absent.
CurrentNum(f) == IF current = UndefinedRecord THEN UndefinedNum ELSE current[f]

\* The default of a count.
DefaultOf(f) == IF f = "adults" THEN 1 ELSE 0

\* C1: the merge follows the field-level preference rule: a scalar field of
\* the result is extracted's value when that is present and non-empty, else
\* current's value; a count is extracted's value when present and non-zero,
\* else current's when non-zero, else the default 1, 0, 0.
C1_FieldPreference ==
  merged # UndefinedRecord =>
    /\ \A f \in StringFields :
         merged[f] = IF NonEmpty(extracted[f]) THEN extracted[f] ELSE CurrentStr(f)
    /\ \A f \in NumberFields :
         merged[f] = IF NonZero(extracted[f]) THEN extracted[f]
                     ELSE IF NonZero(CurrentNum(f)) THEN CurrentNum(f)
                     ELSE DefaultOf(f)

\* C1 witness: a merge in which the extraction wins one field (destination
\* NRT over the stored LAX), the stored value is kept in another (origin
\* SYD) and an extracted 0 falls back to the stored count.
C1_Witness ==
  /\ merged # UndefinedRecord
  /\ current # UndefinedRecord
  /\ current.origin_code = "SYD" /\ extracted.origin_code = Undefined
  /\ current.destination_code = "LAX" /\ extracted.destination_code = "NRT"
  /\ current.children = 1 /\ extracted.children = 0
  /\ merged.origin_code = "SYD"
  /\ merged.destination_code = "NRT"
  /\ merged.children = 1

\* C2: over a sequence of merges a known value is never destroyed: a scalar
\* field that holds a non-empty value holds one after the next merge, and
\* children or infants, once non-zero, are not set back to 0.
C2_NeverDestroyed ==
  [][record # UndefinedRecord =>
       /\ \A f \in StringFields : NonEmpty(record[f]) => NonEmpty(record'[f])
       /\ \A f \in {"children", "infants"} : record[f] # 0 => record'[f] # 0]_vars

\* C2 witness: the latest merge of the sequence carried an explicit "" or 0
\* for a field the record held, and the record still holds children and an
\* origin.
C2_Witness ==
  /\ applied
  /\ record # UndefinedRecord
  /\ record.children = 2
  /\ record.origin_code = "MEL"

\* C3: merging an empty extraction into a SearchParameters record returns
\* every merged field as the record holds it, except is_complete = false.
C3_EmptyExtraction ==
  (merged # UndefinedRecord /\ current # UndefinedRecord
   /\ extracted = EmptyExtraction) =>
    /\ \A f \in StringFields \cup NumberFields : merged[f] = current[f]
    /\ merged.is_complete = FALSE

\* C3 witness: an empty extraction merged into a filled-in record whose
\* is_complete is true.
C3_Witness ==
  /\ merged # UndefinedRecord
  /\ current # UndefinedRecord
  /\ extracted = EmptyExtraction
  /\ current.is_complete
  /\ current.cabin_class = "Y"
  /\ current.children = 1
  /\ merged.cabin_class = "Y"

\* C4: the result of every merge has is_complete = false, whatever the
\* current record's is_complete and whatever the extraction holds.
C4_ClearsComplete == merged # UndefinedRecord => merged.is_complete = FALSE

\* C4 witness: a merge into a record stored with is_complete = true whose
\* result is complete.
C4_Witness ==
  /\ merged # UndefinedRecord
  /\ current # UndefinedRecord
  /\ current.is_complete
  /\ isSearchComplete(merged)

\* C8: getMissingFields of a merged record is empty exactly when
\* isSearchComplete of the same record is true.
C8_MissingIffIncomplete ==
  merged # UndefinedRecord =>
    ((getMissingFields(merged) = << >>) <=> isSearchComplete(merged))

\* C8 witness: a return trip whose merge supplied the last missing field,
\* the return date.
C8_Witness ==
  /\ merged # UndefinedRecord
  /\ current # UndefinedRecord
  /\ merged.trip_type = "return"
  /\ current.return_date = Undefined
  /\ extracted.return_date = "2025-06-20"
  /\ getMissingFields(merged) = << >>
  /\ isSearchComplete(merged)

\* C10: when neither the extraction nor the current record supplies
\* trip_type (current may be absent) the merged record is a return trip:
\* with origin, destination and departure date known and no return date,
\* its trip_type is return, it is incomplete and getMissingFields is
\* [return_date].
C10_DefaultsToReturn ==
  (/\ merged # UndefinedRecord
   /\ extracted.trip_type = Undefined
   /\ CurrentStr("trip_type") = Undefined
   /\ NonEmpty(merged.origin_code)
   /\ NonEmpty(merged.destination_code)
   /\ NonEmpty(merged.departure_date)
   /\ ~NonEmpty(merged.return_date)) =>
    /\ merged.trip_type = "return"
    /\ ~isSearchComplete(merged)
    /\ getMissingFields(merged) = <<"return_date">>

(***************************************************************************)
(* Properties of a conversation turn.                                      *)
(***************************************************************************)
\* The latest request was a turn that merged the extracted parameters into
\* the stored row and persisted the result.
TurnPersistedMerge ==
  /\ response # UndefinedRecord
  /\ response.op = "POST /api/conversations"
  /\ response.status = 201
  /\ response.ai_response # UndefinedRecord
  /\ response.ai_response.extracted_params # UndefinedRecord

\* C5: after a turn in which extracted parameters were merged and
\* persisted, the persisted is_complete equals isSearchComplete of the
\* persisted record.
C5_CompletenessRecomputed ==
  TurnPersistedMerge =>
    LET row == searchParameters[response.conversation_id]
    IN row.is_complete = isSearchComplete(row)

(***************************************************************************)
(* Properties of the completeness evaluator.                               *)
(***************************************************************************)
\* The segment list of the evaluated record has at least two entries.
HasTwoSegments ==
  params.multi_city_segments.defined /\ Len(params.multi_city_segments.items) >= 2

\* C6: a return record without a return date is never complete, and no
\* record of any trip type is complete without origin, destination and
\* departure date.
C6_RequiredFields ==
  evaluated =>
    /\ (params.trip_type = "return" /\ ~NonEmpty(params.return_date)) => ~complete
    /\ (\/ ~NonEmpty(params.origin_code)
        \/ ~NonEmpty(params.destination_code)
        \/ ~NonEmpty(params.departure_date)) => ~complete

\* C6 witness: a return record with everything but the return date,
\* evaluated as incomplete.
C6_Witness ==
  /\ evaluated
  /\ params.trip_type = "return"
  /\ params.origin_code = "SYD"
  /\ params.destination_code = "NRT"
  /\ params.departure_date = "2025-06-01"
  /\ params.return_date = Undefined
  /\ ~complete

\* C7: a multicity record with origin, destination and departure date set
\* is complete exactly when its segment list has at least 2 entries.
C7_MulticitySegments ==
  (evaluated /\ params.trip_type = "multicity"
   /\ NonEmpty(params.origin_code) /\ NonEmpty(params.destination_code)
   /\ NonEmpty(params.departure_date)) =>
    (complete <=> HasTwoSegments)

\* C7 witness: the two segments SYD->NRT and NRT->LAX, evaluated complete.
C7_Witness ==
  /\ evaluated
  /\ complete
  /\ params.trip_type = "multicity"
  /\ params.multi_city_segments.defined
  /\ Len(params.multi_city_segments.items) = 2
  /\ params.multi_city_segments.items[1].origin_code = "SYD"
  /\ params.multi_city_segments.items[1].destination_code = "NRT"
  /\ params.multi_city_segments.items[2].origin_code = "NRT"
  /\ params.multi_city_segments.items[2].destination_code = "LAX"

\* The checklist of a record: the three common fields, then the field its
\* trip type adds.
Checklist ==
  <<"origin_code", "destination_code", "departure_date">>
  \o (IF params.trip_type = "return" THEN <<"return_date">>
      ELSE IF params.trip_type = "multicity" THEN <<"multi_city_segments">>
      ELSE << >>)

\* A checklist field the evaluated record lacks.
Lacks(name) ==
  IF name = "multi_city_segments" THEN ~HasTwoSegments ELSE ~NonEmpty(params[name])

\* C9: getMissingFields returns the lacking fields in the fixed order
\* origin, destination, departure_date, trip-type-specific field; a field
\* that is present does not appear and none appears twice.
C9_MissingOrder ==
  evaluated =>
    /\ missing = SelectSeq(Checklist, Lacks)
    /\ \A i, j \in 1..Len(missing) : i # j => missing[i] # missing[j]
    /\ \A i \in 1..Len(missing) : Lacks(missing[i])

\* C9 witness: a return record lacking destination and return date.
C9_Witness ==
  /\ evaluated
  /\ params.trip_type = "return"
  /\ params.origin_code = "SYD"
  /\ params.departure_date = "2025-06-01"
  /\ missing = <<"destination_code", "return_date">>

(***************************************************************************)
(* Properties of the segment validators.                                   *)
(***************************************************************************)
\* The sequence_order values of the validated list.
OrdersOf(segs) == {segs[i].sequence_order : i \in 1..Len(segs)}

\* Segment i comes before segment j when the list is taken in
\* sequence_order (segments of equal order in the order given).
Precedes(segs, i, j) ==
  \/ segs[i].sequence_order < segs[j].sequence_order
  \/ segs[i].sequence_order = segs[j].sequence_order /\ i < j

\* Segment j is the one right after segment i in sequence_order.
Follows(segs, i, j) ==
  /\ Precedes(segs, i, j)
  /\ ~\E k \in 1..Len(segs) : Precedes(segs, i, k) /\ Precedes(segs, k, j)

\* C11: validateSegmentSequence, on segments in any order, returns exactly
\* when the sequence_order values are 1..N without gap or duplicate; for the
\* orders {1,2,4} it throws and names 3 as the expected order.
C11_SequenceCheck ==
  validation # UndefinedRecord =>
    /\ validation.sequence.ok
         <=> /\ OrdersOf(segments) = 1..Len(segments)
             /\ Cardinality(OrdersOf(segments)) = Len(segments)
    /\ (Len(segments) = 3 /\ OrdersOf(segments) = {1, 2, 4}) =>
         /\ ~validation.sequence.ok
         /\ validation.sequence.position = 3
         /\ validation.sequence.got = 4

\* The orders 4, 1, 2 were validated, given out of order.
C11_Witness ==
  /\ validation # UndefinedRecord
  /\ Len(segments) = 3
  /\ segments[1].sequence_order = 4
  /\ segments[2].sequence_order = 1
  /\ segments[3].sequence_order = 2
  /\ validation.sequence = Threw(3, 4)

\* C12: validateSegmentDates, on segments in any order, returns exactly when
\* every segment, taken in sequence_order, departs strictly later than the
\* one before it; two segments with equal departure dates make it throw.
C12_DatesCheck ==
  validation # UndefinedRecord =>
    /\ validation.dates.ok
         <=> \A i, j \in 1..Len(segments) :
               Follows(segments, i, j) =>
                 DateValue(segments[j].departure_date)
                   > DateValue(segments[i].departure_date)
    /\ (/\ Len(segments) = 2
        /\ segments[1].departure_date = segments[2].departure_date)
         => ~validation.dates.ok

\* Two segments with the same date were validated, the second given first.
C12_Witness ==
  /\ validation # UndefinedRecord
  /\ Len(segments) = 2
  /\ segments[1].sequence_order = 2
  /\ segments[2].sequence_order = 1
  /\ segments[1].departure_date = segments[2].departure_date
  /\ validation.dates = Threw(2, 0)

\* C13: validateSegmentConnections, on segments in any order, returns
\* exactly when every segment, taken in sequence_order, starts where the one
\* before it ended; SYD->NRT followed by HND->LAX makes it throw.
C13_ConnectionsCheck ==
  validation # UndefinedRecord =>
    /\ validation.connections.ok
         <=> \A i, j \in 1..Len(segments) :
               Follows(segments, i, j) =>
                 segments[j].origin_code = segments[i].destination_code
    /\ (/\ Len(segments) = 2
        /\ segments[1].sequence_order < segments[2].sequence_order
        /\ segments[1].origin_code = "SYD"
        /\ segments[1].destination_code = "NRT"
        /\ segments[2].origin_code = "HND"
        /\ segments[2].destination_code = "LAX")
         => ~validation.connections.ok

\* SYD->NRT as segment 1 and HND->LAX as segment 2 were validated, given in
\* the opposite order.
C13_Witness ==
  /\ validation # UndefinedRecord
  /\ Len(segments) = 2
  /\ segments[2].sequence_order = 1
  /\ segments[2].origin_code = "SYD"
  /\ segments[2].destination_code = "NRT"
  /\ segments[1].sequence_order = 2
  /\ segments[1].origin_code = "HND"
  /\ segments[1].destination_code = "LAX"
  /\ validation.connections = Threw(2, 0)

\* C14: validateMultiCitySegments accepts a list only if it has at least
\* two segments and passes the sequence, the date and the connection check.
C14_FullItineraryCheck ==
  (validation # UndefinedRecord /\ validation.itinerary.ok) =>
    /\ Len(segments) >= 2
    /\ validation.sequence.ok
    /\ validation.dates.ok
    /\ validation.connections.ok

(***************************************************************************)
(* Properties of the conversation step.                                    *)
(***************************************************************************)
\* The parameter record after the turn: the current record when nothing was
\* extracted, otherwise the merge, with the segments the extraction names
\* or else the ones the current record holds.
RecordAfterTurn ==
  IF extracted = UndefinedRecord THEN current
  ELSE [f \in DOMAIN mergeParameters(extracted, current)
             \cup {"multi_city_segments"} |->
          IF f = "multi_city_segments"
          THEN (IF extracted.multi_city_segments.defined
                THEN extracted.multi_city_segments
                ELSE IF current = UndefinedRecord THEN UndefinedList
                ELSE SegmentsOf(current))
          ELSE mergeParameters(extracted, current)[f]]

\* C15: the next step of a turn is confirming exactly when the record
\* obtained by merging the turn's extraction into the current parameters is
\* a complete search, and collecting otherwise.
C15_StepIffComplete ==
  turnResponse # UndefinedRecord =>
    /\ turnResponse.next_step \in {"collecting", "confirming"}
    /\ turnResponse.next_step = "confirming"
         <=> /\ RecordAfterTurn # UndefinedRecord
             /\ isSearchComplete(RecordAfterTurn)

\* The stored record of a conversation with its stored segments, as the
\* completeness evaluator reads it.
StoredSearch(rows, segs, id) ==
  [f \in DOMAIN rows[id] \cup {"multi_city_segments"} |->
     IF f = "multi_city_segments" THEN List(segs[id]) ELSE rows[id][f]]

\* The step is a request that wrote the parameter record of conversation id.
UpdatesRecord(id) ==
  /\ id \in DOMAIN searchParameters
  /\ response'.conversation_id = id
  /\ response'.op = "PUT /api/conversations/:conversationId/parameters"
  /\ \/ response'.status = 200
     \/ response'.status = 500 /\ urlCall' # UndefinedRecord

\* C16: when a conversation is at the step confirming or complete and an
\* update leaves its record incomplete, the conversation is back at the step
\* collecting.
C16_StepRegresses ==
  [][\A id \in DOMAIN conversations :
       (/\ conversations[id].current_step \in {"confirming", "complete"}
        /\ UpdatesRecord(id)
        /\ ~isSearchComplete(StoredSearch(searchParameters', multiCitySegments', id)))
         => conversations'[id].current_step = "collecting"]_vars

\* C17: a conversation is at the step complete only with a generated
\* booking URL stored, and a request whose generateBookingURL failed leaves
\* the step of every conversation as it was.
C17_CompleteOnlyWithUrl ==
  /\ [](\A id \in DOMAIN conversations :
          conversations[id].current_step = "complete"
            => conversations[id].generated_url = "booking-url")
  /\ [][(urlCall' # UndefinedRecord /\ response'.status = 500)
          => \A id \in DOMAIN conversations :
               conversations'[id].current_step = conversations[id].current_step]_vars

\* A conversation was completed by one PUT, and the generateBookingURL of a
\* later PUT on it failed.
C17_Witness ==
  /\ response # UndefinedRecord
  /\ response.op = "PUT /api/conversations/:conversationId/parameters"
  /\ response.status = 500
  /\ urlCall # UndefinedRecord
  /\ \E id \in DOMAIN conversations :
       /\ response.conversation_id = id
       /\ conversations[id].current_step = "complete"
       /\ conversations[id].generated_url = "booking-url"

\* C18: the GET and the PUT hand generateBookingURL only a record whose
\* is_complete is true.
C18_UrlOnlyForComplete ==
  urlCall # UndefinedRecord => urlCall.is_complete = TRUE

\* A GET asked generateBookingURL for the URL of a stored record.
C18_Witness ==
  /\ urlCall # UndefinedRecord
  /\ response.op = "GET /api/conversations/:conversationId/parameters"
  /\ response.status = 200
  /\ response.booking_url = "booking-url"

(***************************************************************************)
(* Properties of the stored parameters.                                    *)
(***************************************************************************)
\* The segments of a list, each numbered by its position.
NumberedByPosition(items) ==
  [i \in 1..Len(items) |-> [items[i] EXCEPT !.sequence_order = i]]

\* C19: after a PUT that supplies a segment list for a multicity record, the
\* stored segments of the record are exactly the supplied list, numbered by
\* position.
C19_SegmentsReplaced ==
  [][\A id \in DOMAIN conversations, body \in PutBodies :
       (/\ PutParameters(id, body)
        /\ body.multi_city_segments.defined
        /\ response'.status = 200
        /\ searchParameters'[id].trip_type = "multicity")
         => multiCitySegments'[id]
              = NumberedByPosition(body.multi_city_segments.items)]_vars

\* C20: every stored record has adults in 1..9, infants <= adults and, when
\* both are known, an origin_code different from its destination_code.
C20_StoredRecordValid ==
  \A id \in DOMAIN searchParameters :
    LET row == searchParameters[id]
    IN /\ row.adults \in 1..9
       /\ row.infants <= row.adults
       /\ (TruthyStr(row.origin_code) /\ TruthyStr(row.destination_code))
            => row.origin_code # row.destination_code

\* C21: every conversation has its SearchParameters record from the step
\* that creates it, the record starts as the defaults with every optional
\* field unset, and no later step removes it.
C21_OneRecordPerConversation ==
  /\ [](\A id \in DOMAIN conversations : id \in DOMAIN searchParameters)
  /\ [][/\ \A id \in DOMAIN searchParameters : id \in DOMAIN searchParameters'
        /\ \A id \in DOMAIN searchParameters' \ DOMAIN searchParameters :
             /\ id \in DOMAIN conversations' \ DOMAIN conversations
             /\ response'.ai_response = UndefinedRecord
                  => searchParameters'[id] = CreatedRecord]_vars

\* The counts a validated record holds once the defaults are filled in.
AdultsOf(data) == IF data.adults = UndefinedNum THEN 1 ELSE data.adults

InfantsOf(data) == IF data.infants = UndefinedNum THEN 0 ELSE data.infants

\* The issue of the rule that compares infants with adults.
InfantsRuleIssue == [path |-> "infants", code |-> "custom"]

\* The record breaks no rule of the schema other than, at most, the one
\* that compares infants with adults.
OtherwiseValid == verdict.record.issues \subseteq {InfantsRuleIssue}

\* C22: validateSearchParameters of an otherwise valid record fails when the
\* record has more infants than adults, and raises nothing for this rule
\* when it has at most as many.
C22_InfantsRule ==
  (verdict # UndefinedRecord /\ OtherwiseValid)
    => /\ InfantsOf(candidate) > AdultsOf(candidate)
            => ~verdict.record.ok /\ InfantsRuleIssue \in verdict.record.issues
       /\ InfantsOf(candidate) <= AdultsOf(candidate)
            => verdict.record.ok

C22_Witness ==
  /\ verdict # UndefinedRecord
  /\ OtherwiseValid
  /\ candidate.adults = UndefinedNum
  /\ candidate.infants = 2
  /\ ~verdict.record.ok

\* The fields a body supplies.
SuppliedFields(body) ==
  {f \in {"origin_code", "destination_code", "departure_date", "return_date",
          "trip_type", "cabin_class"} : body[f] # Undefined}
    \cup {f \in {"adults", "children", "infants"} : body[f] # UndefinedNum}
    \cup (IF body.multi_city_segments.defined THEN {"multi_city_segments"}
          ELSE {})

\* C23: UpdateSearchParametersSchema accepts a body exactly when no field
\* the body supplies fails its own check at the instant of the validation:
\* a field left out raises nothing, and no rule across fields is applied.
C23_PartialUpdateFieldwise ==
  (verdict # UndefinedRecord /\ verdict.at = now)
    => /\ verdict.update
            <=> \A issue \in FieldIssues(candidate) :
                  issue.path \notin SuppliedFields(candidate)
       /\ \A issue \in FieldIssues(candidate) :
            issue.path \in SuppliedFields(candidate)

\* A body accepted although the record it describes breaks a rule across
\* fields.
C23_Witness ==
  /\ verdict # UndefinedRecord
  /\ verdict.update
  /\ verdict.at = now
  /\ RefinementIssues(WithDefaults(candidate)) # {}

\* C24: a date is accepted exactly when midnight UTC of it lies at least 14
\* days after the instant of the validation, and a date rejected at one
\* validation is rejected at every later one.
C24_DatesAgeOut ==
  /\ [](verdict # UndefinedRecord
          => (verdict.date
                <=> /\ IsDateString(candidate.departure_date)
                    /\ DateValue(candidate.departure_date) * 24 - verdict.at
                         >= 14 * 24))
  /\ [][(verdict # UndefinedRecord /\ verdict' # UndefinedRecord
           /\ ~verdict.date) => ~verdict'.date]_vars

\* A date accepted at one validation and rejected at a later one.
C24_Witness == agedOut /\ ~verdict.date

\* The field of the record a phrase of the clarification prompt asks for.
FieldAsked(ask) ==
  CASE ask = "departure airport" -> "origin_code"
    [] ask = "arrival airport" -> "destination_code"
    [] ask = "departure date" -> "departure_date"

\* C25: when the record after a turn is incomplete, the clarification
\* prompt of the turn asks for exactly one field, the first one
\* getMissingFields lists for that record.
C25_AsksFirstMissingField ==
  (/\ turnResponse # UndefinedRecord
   /\ RecordAfterTurn # UndefinedRecord
   /\ ~isSearchComplete(RecordAfterTurn))
    => /\ Len(turnResponse.clarification_prompt.asks) = 1
       /\ FieldAsked(turnResponse.clarification_prompt.asks[1])
            = Head(getMissingFields(RecordAfterTurn))

\* C26: when the extraction of a turn names a destination city with several
\* airports, the clarification prompt of the turn is the question about
\* that city, whatever fields are missing, and the next step is the one the
\* turn would have without the name.
C26_AmbiguityOverridesPrompt ==
  (/\ turnResponse # UndefinedRecord
   /\ extracted # UndefinedRecord
   /\ AmbiguousDestination(extracted.destination_name) # Undefined)
    => /\ turnResponse.clarification_prompt.question
            = AmbiguousDestination(extracted.destination_name)
       /\ turnResponse.next_step
            = generateResponse("reply",
                               [extracted EXCEPT !.destination_name = Undefined],
                               current).next_step

\* The entries of the checklist that apply to the trip type of params:
\* origin, destination, departure date, and one more for a return or a
\* multicity trip.
Applicable == 3 + (IF params.trip_type \in {"return", "multicity"} THEN 1 ELSE 0)

\* The entries of the checklist that params satisfies: the applicable ones
\* getMissingFields did not list.
Satisfied == Applicable - Len(missing)

\* C27: calculateCompletionPercentage returns the integer nearest to
\* 100 * satisfied / applicable, a value in 0..100 that is 100 exactly when
\* isSearchComplete returns true.
C27_CompletionPercentage ==
  evaluated
    => /\ percentage \in 0..100
       /\ 2 * (percentage * Applicable - 100 * Satisfied) <= Applicable
       /\ 2 * (100 * Satisfied - percentage * Applicable) <= Applicable
       /\ percentage = 100 <=> complete

\* Two of three entries satisfied, rounded up to 67.
C27_Witness ==
  /\ evaluated
  /\ Applicable = 3
  /\ Satisfied = 2
  /\ percentage = 67

\* The segment sets a PUT stores for the conversation.
StoredSegmentSets ==
  {PutSegmentRows(body) : body \in {b \in PutBodies : b.multi_city_segments.defined}}

\* C28: a read of the segments of a record returns a set some PUT stored as
\* a whole, never the state between the deletion of the old segments and
\* the insertion of the new ones.
C28_ReplacementAtomic ==
  readResult.defined => readResult.items \in StoredSegmentSets

\* Whether the extraction of cycle c carries a value for field f.
Extracts(c, f) ==
  IF f \in NumberFields THEN NonZero(cycles[c].extraction[f])
  ELSE NonEmpty(cycles[c].extraction[f])

\* Both cycles have written.
BothWritten == \A c \in Cycles : cycles[c].at = "updateSearchParameters"

\* The record holds what the cycles extracted: for every field, the value of
\* the latest cycle that extracted one.
ReflectsBoth ==
  \A c \in Cycles, f \in StringFields \cup NumberFields :
    (/\ Extracts(c, f)
     /\ \A d \in Cycles : cycles[d].wrote > cycles[c].wrote => ~Extracts(d, f))
      => record[f] = cycles[c].extraction[f]

\* C29: when the two read-merge-write cycles on a record do not overlap, the
\* record they leave holds what both extracted.
C29_SequentialCyclesKeepBoth ==
  (BothWritten /\ ~overlapped) => ReflectsBoth

\* Two overlapping cycles after which a value the first one persisted is
\* gone: the second wrote the merge of a record read before the first wrote.
C29_Witness ==
  /\ BothWritten
  /\ overlapped
  /\ \E c \in Cycles, f \in StringFields \cup NumberFields :
       /\ cycles[c].wrote = 1
       /\ Extracts(c, f)
       /\ \A d \in Cycles \ {c} : ~Extracts(d, f)
       /\ record[f] # cycles[c].extraction[f]

\* C30: every stored segment set is numbered 1..N by position, and a PUT
\* that stores segments stores the supplied ones in the supplied order with
\* the position as sequence_order, whatever sequence_order the client sent.
C30_SequenceOrderByPosition ==
  /\ [](\A id \in DOMAIN multiCitySegments :
          \A i \in 1..Len(multiCitySegments[id]) :
            multiCitySegments[id][i].sequence_order = i)
  /\ [][\A id \in DOMAIN conversations, body \in SegmentBodies :
         (PutParameters(id, body) /\ multiCitySegments'[id] # multiCitySegments[id])
           => /\ Len(multiCitySegments'[id]) = Len(body.multi_city_segments.items)
              /\ \A i \in 1..Len(multiCitySegments'[id]) :
                   /\ multiCitySegments'[id][i].sequence_order = i
                   /\ [multiCitySegments'[id][i] EXCEPT !.sequence_order = 0]
                        = [body.multi_city_segments.items[i]
                             EXCEPT !.sequence_order = 0]]_vars

\* Segments stored from a list the client numbered 2, 1: the entry sent
\* first is stored with sequence_order 1.
C30_Witness ==
  \E id \in DOMAIN multiCitySegments :
    /\ Len(multiCitySegments[id]) = 2
    /\ multiCitySegments[id][1].origin_code = ShuffledSegments[1].origin_code
    /\ multiCitySegments[id][1].sequence_order = 1
    /\ ShuffledSegments[1].sequence_order = 2

\* C31: the departure dates of every stored segment set strictly increase
\* with sequence_order: a PUT never stores a list whose dates do not.
C31_StoredSegmentsChronological ==
  \A id \in DOMAIN multiCitySegments :
    \A i \in 1..(Len(multiCitySegments[id]) - 1) :
      DateValue(multiCitySegments[id][i].departure_date)
        < DateValue(multiCitySegments[id][i + 1].departure_date)

\* C32: after a successful PUT on a record whose trip_type is multicity, the
\* stored is_complete is true exactly when origin, destination and
\* departure date are set and at least two segments are stored for the
\* record.
C32_MulticityCompleteness ==
  [][\A id \in DOMAIN conversations, body \in PutBodies :
       (/\ PutParameters(id, body)
        /\ response'.status = 200
        /\ searchParameters'[id].trip_type = "multicity")
         => (searchParameters'[id].is_complete
               <=> /\ TruthyStr(searchParameters'[id].origin_code)
                   /\ TruthyStr(searchParameters'[id].destination_code)
                   /\ TruthyStr(searchParameters'[id].departure_date)
                   /\ Len(multiCitySegments'[id]) >= 2)]_vars

\* C33: after a successful PUT the stored is_complete is the completeness
\* the handler computed from the updated record, whatever is_complete the
\* body carried, and the is_complete of the answer is the stored one.
C33_ClientFlagIgnored ==
  [][\A id \in DOMAIN conversations, body \in FlagBodies :
       (PutParameters(id, body) /\ response'.status = 200)
         => /\ searchParameters'[id].is_complete
                 = PutIsComplete(updateSearchParameters(searchParameters[id], body),
                                 body)
            /\ response'.is_complete = searchParameters'[id].is_complete]_vars

\* A record asked to be a return trip, which FlagBodies only does with
\* is_complete true, stored as incomplete after a successful PUT for want
\* of a return date.
C33_Witness ==
  /\ response # UndefinedRecord
  /\ response.op = "PUT /api/conversations/:conversationId/parameters"
  /\ response.status = 200
  /\ response.is_complete = FALSE
  /\ \E id \in DOMAIN searchParameters :
       /\ id = response.conversation_id
       /\ ~searchParameters[id].is_complete
       /\ searchParameters[id].trip_type = "return"
       /\ searchParameters[id].return_date = Undefined

\* The cases in which the PUT has to reject the request: a body with a
\* field that fails its check, an unknown conversation, a conversation that
\* is not active, a conversation without a parameter record.
PutMustReject(id, body) ==
  \/ FieldIssues(body) # {}
  \/ id \notin DOMAIN conversations
  \/ conversations[id].status # "active"
  \/ id \notin DOMAIN searchParameters

C35_FailedPutRestores ==
  [][(/\ replacing # UndefinedRecord
      /\ replacing' = UndefinedRecord
      /\ response'.status = 500
      /\ urlCall' = UndefinedRecord)
       => /\ searchParameters'[ReplacedId] = replacing.before.parameters
          /\ multiCitySegments'[ReplacedId] = replacing.before.segments]_vars

\* A conversation that exists and whose status is active.
IsActive(id) ==
  /\ id \in DOMAIN conversations
  /\ conversations[id].status = "active"

\* C36: no step adds a message to a conversation that does not exist or is
\* not active, and POST /messages and POST /api/chat/stream answer such a
\* conversation with 404 or 400 and leave every message list as it was.
C36_NoMessageForInactive ==
  [][/\ DOMAIN messages' = DOMAIN messages
     /\ \A id \in DOMAIN messages :
          messages'[id] # messages[id] => IsActive(id)
     /\ \A conversationId \in MessagePathIds, body \in MessageBodies :
          (PostMessages(conversationId, body) /\ ~IsActive(conversationId))
            => (response'.status \in {400, 404} /\ UNCHANGED messages)
     /\ \A body \in StreamBodies :
          (PostChatStream(body) /\ ~IsActive(body.conversation_id))
            => (response'.status \in {400, 404} /\ UNCHANGED messages)]_vars

\* POST /api/chat/stream, with a well-formed body, answered 400 for the
\* conversation that is not active, after the active one took messages.
C36_Witness ==
  /\ response # UndefinedRecord
  /\ response.op = "POST /api/chat/stream"
  /\ response.status = 400
  /\ response.conversation_id = 3
  /\ conversations[3].status # "active"
  /\ Len(messages[1]) > 1

\* The stored messages of the conversation before the request, followed by
\* the new user message.
StoredThenNew ==
  streamCall.stored \o <<[role |-> "user", content |-> streamCall.message]>>

\* C37: the messages POST /api/chat/stream sends to the model are the stored
\* messages of the conversation, each once and in stored order, followed by
\* the new user message once; a system primer may precede them.
C37_ModelSeesEachMessageOnce ==
  streamCall # UndefinedRecord
    => \/ streamCall.messages = StoredThenNew
       \/ /\ Head(streamCall.messages).role = "system"
          /\ Tail(streamCall.messages) = StoredThenNew

\* The request has an Origin header with a value.
HasOrigin(req) == TruthyStr(req.origin)

\* The origin of the request is disallowed: it is present and missing from
\* a non-empty allow-list.
Disallowed(req) ==
  /\ HasOrigin(req)
  /\ Len(parseOrigins(req.allowed_origins)) > 0
  /\ ~Includes(parseOrigins(req.allowed_origins), req.origin)

\* C38: a request to an /api/ path from a disallowed origin is answered 403
\* without Access-Control-Allow-Origin and Access-Control-Allow-Credentials,
\* and a request to an /api/ path that has no Origin header, an empty
\* allow-list or a listed origin is not answered 403.
C38_CorsNeverGrantsDisallowed ==
  (corsRequest # UndefinedRecord /\ IsApiPath(corsRequest.pathname))
    => IF Disallowed(corsRequest)
       THEN /\ corsResponse.status = 403
            /\ corsResponse.allow_origin = Undefined
            /\ ~corsResponse.allow_credentials
       ELSE corsResponse.status # 403

\* The same property for the requests src/backend/middleware.ts handles.
MiddlewareTsNeverGrantsDisallowed ==
  (corsRequest # UndefinedRecord /\ corsRequest.copy = "src/backend/middleware.ts")
    => C38_CorsNeverGrantsDisallowed

====
